---- MODULE Spec2Model ----
(***************************************************************************)
(* Model of selfdrive/controls/radard.py: the radar/vision fusion daemon.  *)
(*                                                                         *)
(* Units.  The source computes in floats; the model computes in integers:  *)
(*   distances (dRel, yRel, x, y, lane width)      centimetres             *)
(*   speeds (vRel, vLead, vEgo, v)                 cm/s                    *)
(*   accelerations (aRel, aLeadK, a, aLeadTauStart) cm/s^2                 *)
(*   time steps (radar_ts, dt)                     milliseconds            *)
(*   probabilities (lead.prob, modelProb)          percent                 *)
(*   aLeadTau, global_vision_aLeadTau              1e-4 s  (1.5 s = 15000) *)
(*   Kalman gains                                  1e-8 (table), 1e-4 (KF) *)
(*   Laplace scores (vision_prob)                  natural log, 1e-3       *)
(* Every comparison of the source is made exactly on these integers.       *)
(***************************************************************************)
EXTENDS Integers, Sequences, FiniteSets, TLC

VARIABLES
  phase,          \* "new" before RadarD.__init__, "running" after it, "failed" if it
                  \* raised, "raised" once RadarD.update raised
  radar_ts,       \* RadarD.radar_ts (CP.radarTimeStep), ms
  kalman_params,  \* RadarD.kalman_params: [A01, K0, K1]
  tracks,         \* RadarD.tracks: dict id -> Track, kept in insertion order
  gtau,           \* module global global_vision_aLeadTau
  v_ego,          \* RadarD.v_ego
  v_ego_hist,     \* RadarD.v_ego_hist: deque(maxlen = delay + 1)
  a_ego,          \* RadarD.a_ego
  ready,          \* RadarD.ready
  tun,            \* RadarD.mixRadarInfo, aLeadTau, aLeadTauStart as read this cycle
  radar_state,    \* RadarD.radar_state: the record assembled by update
  radar_state_valid, \* RadarD.radar_state_valid
  inp,            \* the arguments (sm, rr) of the last update / of the last call
  call,           \* the last function-level call and what it returned
  hist,           \* per finished cycle: the set of trackIds of its radar points
  gwrites,        \* assignments to global_vision_aLeadTau made by the last cycle
  cycle,          \* number of update cycles run
  pc,             \* radard_thread: the statement the loop is at
  reads,          \* radard_thread: RI.update results so far, [some, none]
  sent,           \* radard_thread: the messages handed to pm.send, oldest first
  dh,             \* the DesireHelper object (selfdrive/controls/lib/desire_helper.py)
  dh_in,          \* the arguments of the last DesireHelper.update
  dh_run,         \* consecutive updates that ended in laneChangeStarting/Finishing
  dh_calls,       \* DesireHelper.update calls made
  iq,             \* one IsoTpParallelQuery.get_data call: its locals and position
  iq_rx           \* what the last msg.recv() of that call gave, and for which address

\* the variables of radard_thread's loop
tvars == <<pc, reads, sent>>

\* the variables of radard
rdvars == <<phase, radar_ts, kalman_params, tracks, gtau, v_ego, v_ego_hist, a_ego,
            ready, tun, radar_state, radar_state_valid, inp, call, hist, gwrites,
            cycle, pc, reads, sent>>

\* the variables of the other programs of the model, which radard leaves alone
ovars == <<dh, dh_in, dh_run, dh_calls, iq, iq_rx>>

\* the variables of DesireHelper
dvars == <<dh, dh_in, dh_run, dh_calls>>

\* the variables of IsoTpParallelQuery
qvars == <<iq, iq_rx>>

vars == <<phase, radar_ts, kalman_params, tracks, gtau, v_ego, v_ego_hist, a_ego,
          ready, tun, radar_state, radar_state_valid, inp, call, hist, gwrites, cycle,
          pc, reads, sent, dh, dh_in, dh_run, dh_calls, iq, iq_rx>>

\* an object that was not constructed
Absent == [status |-> "None"]

\* no other program runs beside radard
OthersAbsent ==
  /\ dh = Absent /\ dh_in = Absent /\ dh_run = 0 /\ dh_calls = 0
  /\ iq = Absent /\ iq_rx = Absent

----------------------------------------------------------------------------
(* Bounds of the model *)

MaxCycles == 3

MaxCalls == 1

MaxDtMs == 260

MaxNone == 2

MaxUpdates == 16

MaxAccel == 2

MaxDecays == 17

MaxDelay == 2

MaxDesireUpdates == 4

MaxTimerUpdates == 203

MaxEarlyTimer == 11

MinLateTimer == 185

MaxTick == 2

----------------------------------------------------------------------------
(* Program constants *)

LEAD_ACCEL_TAU == 15000

V_EGO_STATIONARY == 400

RADAR_TO_CAMERA == 152

TRAJECTORY_SIZE == 33

\* math.exp underflows to 0.0 below about -745: the score 0.0
ProbZero == -745000

----------------------------------------------------------------------------
(* Arithmetic helpers *)

Abs(x) == IF x < 0 THEN -x ELSE x

Max2(a, b) == IF a > b THEN a ELSE b

Min2(a, b) == IF a < b THEN a ELSE b

\* openpilot.common.numpy_fast.interp on scalars: linear, clamped at both ends
RECURSIVE InterpHi(_, _, _)
InterpHi(xv, xp, hi) ==
  IF hi <= Len(xp) /\ xv > xp[hi] THEN InterpHi(xv, xp, hi + 1) ELSE hi

interp(xv, xp, fp) ==
  LET hi  == InterpHi(xv, xp, 1)
      low == hi - 1
  IN IF hi = Len(xp) + 1 /\ xv > xp[low] THEN fp[Len(fp)]
     ELSE IF hi = 1 THEN fp[1]
     ELSE ((xv - xp[low]) * (fp[hi] - fp[low])) \div (xp[hi] - xp[low]) + fp[low]

----------------------------------------------------------------------------
(* KalmanParams *)

KalmanDts == [i \in 1..20 |-> i * 10]

KalmanK0 == <<12287673, 14556536, 16522756, 18281627, 19886890, 21372394,
              22761098, 24069424, 25309600, 26491023, 27621103, 28705801,
              29750003, 30757767, 31732515, 32677158, 33594201, 34485814,
              35353899, 36200124>>

KalmanK1 == <<29666309, 29330885, 29042818, 28787125, 28555364, 28342219,
              28144091, 27958406, 27783249, 27617149, 27458948, 27307714,
              27162685, 27023228, 26888809, 26758976, 26633338, 26511557,
              26393339, 26278425>>

\* the mutant: the interval closed at both ends
KalmanParamsOkClosed(dt) == dt >= 10 /\ dt <= 200

\* the assert of KalmanParams.__init__
KalmanParamsOk(dt) == dt > 10 /\ dt < 200

KalmanParams(dt) ==
  [A01 |-> dt,
   K0  |-> interp(dt, KalmanDts, KalmanK0),
   K1  |-> interp(dt, KalmanDts, KalmanK1)]

----------------------------------------------------------------------------
(* KF1D: x <- (A - K C) x + K z, with the fixed gain K *)

KF1D(x0, x1) == <<x0, x1>>

KF1D_update(kf, kp, meas) ==
  LET K0   == kp.K0 \div 10000
      K1   == kp.K1 \div 10000
      AK0  == 10000 - K0
      AK1  == kp.A01 * 10
      AK2  == 0 - K1
      AK3  == 10000
  IN <<(AK0 * kf[1] + AK1 * kf[2] + K0 * meas) \div 10000,
       (AK2 * kf[1] + AK3 * kf[2] + K1 * meas) \div 10000>>

----------------------------------------------------------------------------
(* Track *)

\* Track.__init__; yRel, aRel, vLead, measured, vLeadK, aLeadK are first
\* assigned by update, which RadarD.update calls right after construction
Track(identifier, v_lead, y_rel, kp, ts) ==
  [identifier |-> identifier, cnt |-> 0, aLeadTau |-> LEAD_ACCEL_TAU,
   kf |-> KF1D(v_lead, 0), kf_y |-> KF1D(y_rel, 0),
   dRel |-> 0, vRel |-> 0, vLat |-> 0, vision_prob |-> ProbZero,
   radar_ts |-> ts,
   yRel |-> 0, aRel |-> 0, vLead |-> 0, measured |-> FALSE,
   vLeadK |-> 0, aLeadK |-> 0]

\* the mutant: the gate's comparisons are not strict
TrackDiscontinuityGe(t, d_rel, v_rel) ==
  Abs(t.dRel - d_rel) >= 300 \/ Abs(t.vRel - v_rel) >= 2 * t.radar_ts

\* abs(self.dRel - d_rel) > 3.0 or abs(self.vRel - v_rel) > 20.0 * self.radar_ts
TrackDiscontinuity(t, d_rel, v_rel) ==
  Abs(t.dRel - d_rel) > 300 \/ Abs(t.vRel - v_rel) > 2 * t.radar_ts

\* lines 74-77: a discontinuity zeroes cnt and reseeds both filters
Track_reseed(t, d_rel, y_rel, v_rel, v_lead) ==
  IF TrackDiscontinuity(t, d_rel, v_rel)
  THEN [t EXCEPT !.cnt = 0, !.kf = KF1D(v_lead, 0), !.kf_y = KF1D(y_rel, 0)]
  ELSE t

\* the mutant: the distance is stored only on a reseeded Track
Track_copyStale(t, d_rel, y_rel, v_rel, v_lead, measured, a_rel) ==
  [t EXCEPT !.dRel = IF t.cnt = 0 THEN d_rel ELSE t.dRel,
            !.yRel = y_rel, !.vRel = v_rel, !.aRel = a_rel,
            !.vLead = v_lead, !.measured = measured]

\* lines 79-84: the raw fields are copied
Track_copy(t, d_rel, y_rel, v_rel, v_lead, measured, a_rel) ==
  [t EXCEPT !.dRel = d_rel, !.yRel = y_rel, !.vRel = v_rel, !.aRel = a_rel,
            !.vLead = v_lead, !.measured = measured]

\* the mutant: the decay of aLeadTau stops at 0.3
Track_filterFloor(t, aLeadTau, aLeadTauStart, kp) ==
  LET kfb    == IF t.cnt > 0 THEN KF1D_update(t.kf, kp, t.vLead) ELSE t.kf
      kfyb   == IF t.cnt > 0 THEN KF1D_update(t.kf_y, kp, t.yRel) ELSE t.kf_y
      aLeadK == kfb[2]
  IN [t EXCEPT !.kf = kfb, !.kf_y = kfyb,
               !.vLat = kfyb[2], !.vLeadK = kfb[1], !.aLeadK = aLeadK,
               !.aLeadTau = IF Abs(aLeadK) < aLeadTauStart THEN aLeadTau
                            ELSE Max2(3000, (t.aLeadTau * 9) \div 10),
               !.cnt = t.cnt + 1]

\* the mutant: the filters are never corrected
Track_filterSkip(t, aLeadTau, aLeadTauStart, kp) ==
  [t EXCEPT !.vLat = t.kf_y[2], !.vLeadK = t.kf[1], !.aLeadK = t.kf[2],
            !.aLeadTau = IF Abs(t.kf[2]) < aLeadTauStart THEN aLeadTau
                         ELSE (t.aLeadTau * 9) \div 10,
            !.cnt = t.cnt + 1]

\* lines 87-112: correction when cnt > 0, derived values, aLeadTau, cnt
Track_filter(t, aLeadTau, aLeadTauStart, kp) ==
  LET kfb    == IF t.cnt > 0 THEN KF1D_update(t.kf, kp, t.vLead) ELSE t.kf
      kfyb   == IF t.cnt > 0 THEN KF1D_update(t.kf_y, kp, t.yRel) ELSE t.kf_y
      aLeadK == kfb[2]
  IN [t EXCEPT !.kf = kfb, !.kf_y = kfyb,
               !.vLat = kfyb[2], !.vLeadK = kfb[1], !.aLeadK = aLeadK,
               !.aLeadTau = IF Abs(aLeadK) < aLeadTauStart THEN aLeadTau
                            ELSE (t.aLeadTau * 9) \div 10,
               !.cnt = t.cnt + 1]

Track_update(t, d_rel, y_rel, v_rel, v_lead, measured, a_rel, aLeadTau, aLeadTauStart, kp) ==
  Track_filter(
    Track_copy(Track_reseed(t, d_rel, y_rel, v_rel, v_lead),
               d_rel, y_rel, v_rel, v_lead, measured, a_rel),
    aLeadTau, aLeadTauStart, kp)

is_potential_fcw(model_prob) == model_prob > 90

\* the mutant: the bounds on dRel are closed
potential_low_speed_leadClosed(t, vEgo) ==
  Abs(t.yRel) < 100 /\ vEgo < V_EGO_STATIONARY /\ 75 <= t.dRel /\ t.dRel <= 2500

potential_low_speed_lead(t, vEgo) ==
  Abs(t.yRel) < 100 /\ vEgo < V_EGO_STATIONARY /\ 75 < t.dRel /\ t.dRel < 2500

\* a lead record whose fields are all at their defaults ({'status': False})
NoLead ==
  [status |-> FALSE, dRel |-> 0, yRel |-> 0, vRel |-> 0, vLead |-> 0, vLeadK |-> 0,
   aLeadK |-> 0, aLeadTau |-> 0, fcw |-> FALSE, modelProb |-> 0, radar |-> FALSE,
   radarTrackId |-> -1, aRel |-> 0, vLat |-> 0]

get_RadarState(t, model_prob) ==
  [status |-> TRUE, dRel |-> t.dRel, yRel |-> t.yRel, vRel |-> t.vRel,
   vLead |-> t.vLead, vLeadK |-> t.vLeadK, aLeadK |-> t.aLeadK,
   aLeadTau |-> t.aLeadTau, fcw |-> is_potential_fcw(model_prob),
   modelProb |-> model_prob, radar |-> TRUE, radarTrackId |-> t.identifier,
   aRel |-> t.aRel, vLat |-> t.vLat]

get_RadarState2(t, model_prob, lead_msg) ==
  [get_RadarState(t, model_prob) EXCEPT
     !.yRel = IF t.yRel # 0 THEN t.yRel ELSE 0 - lead_msg.y]

----------------------------------------------------------------------------
(* Vision/radar association.  A vision lead message is                     *)
(* [x, y, v, a, prob, xStd, yStd, vStd] (the first elements of the lists). *)
(* A Track reference is its position in tracks; 0 is None.                 *)

\* log of laplacian_pdf: -|x - mu| / max(b, 1e-4), 0.0 when exp underflows
laplacian_pdf(x, mu, b) ==
  IF b = 0 THEN Max2(ProbZero, 0 - Min2(Abs(x - mu), 8) * 100000)
  ELSE Max2(ProbZero, 0 - (Min2(Abs(x - mu), 1000000) * 1000) \div b)

\* log of interp(v, [0, 10], [0.3, 1]) at v = 0, 1, ..., 10 m/s
LnWeightTable == <<-1204, -994, -821, -673, -545, -431, -329, -236, -151, -73, 0>>

weight_v(v) == interp(v, [i \in 1..11 |-> (i - 1) * 100], LnWeightTable)

\* prob(c, c_key) of match_vision_to_track
TrackProb(c, vEgo, lead) ==
  LET prob_d == laplacian_pdf(c.dRel, lead.x - RADAR_TO_CAMERA, lead.xStd)
      prob_y == laplacian_pdf(c.yRel + c.vLat * 2, 0 - lead.y, lead.yStd)
      prob_v == laplacian_pdf(c.vRel + vEgo, lead.v, lead.vStd)
  IN Max2(ProbZero, prob_d + prob_y + prob_v + weight_v(c.vRel + vEgo))

\* max(..., key) and min(..., key) of Python: the first extremal element
ArgMaxFirst(keys) ==
  CHOOSE i \in 1..Len(keys) :
    /\ \A j \in 1..Len(keys) : keys[j] <= keys[i]
    /\ \A j \in 1..(i - 1) : keys[j] < keys[i]

ArgMinFirst(keys) ==
  CHOOSE i \in 1..Len(keys) :
    /\ \A j \in 1..Len(keys) : keys[j] >= keys[i]
    /\ \A j \in 1..(i - 1) : keys[j] > keys[i]

\* the positions 1..n of a dict's values, in insertion order
Positions(n) == [i \in 1..n |-> i]

\* the mutant: the distance gate is dropped
DistSaneAlways(dRel, offset_vision_dist) == TRUE

\* abs(track.dRel - offset_vision_dist) < max([(offset_vision_dist)*.35, 5.0])
DistSane(dRel, offset_vision_dist) ==
  Abs(dRel - offset_vision_dist) * 100 < Max2(offset_vision_dist * 35, 50000)

\* prob() applied to every Track: each Track's vision_prob is written
ScoreTracks(vEgo, lead, trks) ==
  [i \in 1..Len(trks) |->
     [trks[i] EXCEPT !.vision_prob = TrackProb(trks[i], vEgo, lead)]]

\* the mutant: the velocity gate is dropped
MatchGatesNoVel(vEgo, lead, track) ==
  /\ DistSane(track.dRel, lead.x - RADAR_TO_CAMERA)
  /\ Abs((0 - lead.y) - track.yRel) < 160

\* lines 217-225: the sanity gates on the best-scoring Track
MatchGates(vEgo, lead, track) ==
  LET offset_vision_dist == lead.x - RADAR_TO_CAMERA
      dist_sane == DistSane(track.dRel, offset_vision_dist)
      vel_tolerance == IF lead.prob > 85 THEN 2000 ELSE 1000
      vel_sane == \/ Abs(track.vRel + vEgo - lead.v) < vel_tolerance
                  \/ vEgo + track.vRel > 300
      y_sane == Abs((0 - lead.y) - track.yRel) < 160
  IN dist_sane /\ vel_sane /\ y_sane

MatchBest(vEgo, lead, scored, best) ==
  [track  |-> IF MatchGates(vEgo, lead, scored[best]) THEN best ELSE 0,
   tracks |-> scored]

MatchScored(vEgo, lead, scored) ==
  MatchBest(vEgo, lead, scored,
            ArgMaxFirst([i \in 1..Len(scored) |-> scored[i].vision_prob]))

\* match_vision_to_track: the position of the returned Track (0 for None)
\* and the Tracks with their vision_prob written
match_vision_to_track(vEgo, lead, trks) ==
  MatchScored(vEgo, lead, ScoreTracks(vEgo, lead, trks))

\* tracks.get(0): the position of the Track with identifier 0, or None
TrackScc(trks) ==
  IF \E i \in 1..Len(trks) : trks[i].identifier = 0
  THEN CHOOSE i \in 1..Len(trks) : trks[i].identifier = 0
  ELSE 0

\* get_RadarState_from_vision building the record before the decay
get_RadarState_from_visionStale(lead_msg, vEgo, model_v_ego, g) ==
  LET g2 == IF g > 3000 THEN (g * 9) \div 10 ELSE g
      lead_v_rel_pred == lead_msg.v - model_v_ego
  IN [ld |-> [status |-> TRUE, dRel |-> lead_msg.x - RADAR_TO_CAMERA,
              yRel |-> 0 - lead_msg.y, vRel |-> lead_v_rel_pred,
              vLead |-> vEgo + lead_v_rel_pred, vLeadK |-> vEgo + lead_v_rel_pred,
              aLeadK |-> lead_msg.a, aLeadTau |-> g, fcw |-> FALSE,
              modelProb |-> lead_msg.prob, radar |-> FALSE, radarTrackId |-> -1,
              aRel |-> 0, vLat |-> 0],
      g |-> g2,
      w |-> IF g > 3000 THEN 1 ELSE 0]

\* get_RadarState_from_vision: the record, the global after it, and whether
\* the global was assigned
get_RadarState_from_vision(lead_msg, vEgo, model_v_ego, g) ==
  LET g2 == IF g > 3000 THEN (g * 9) \div 10 ELSE g
      lead_v_rel_pred == lead_msg.v - model_v_ego
  IN [ld |-> [status |-> TRUE, dRel |-> lead_msg.x - RADAR_TO_CAMERA,
              yRel |-> 0 - lead_msg.y, vRel |-> lead_v_rel_pred,
              vLead |-> vEgo + lead_v_rel_pred, vLeadK |-> vEgo + lead_v_rel_pred,
              aLeadK |-> lead_msg.a, aLeadTau |-> g2, fcw |-> FALSE,
              modelProb |-> lead_msg.prob, radar |-> FALSE, radarTrackId |-> -1,
              aRel |-> 0, vLat |-> 0],
      g |-> g2,
      w |-> IF g > 3000 THEN 1 ELSE 0]

\* the mutant: Track 0 stands in whatever vision reports
LeadTrackAlwaysScc(lead_msg, trks, track, track_scc) ==
  IF track_scc # 0 /\ track = 0 THEN track_scc ELSE track

\* lines 268-273: Track 0 stands in when association gave None
LeadTrack(lead_msg, trks, track, track_scc) ==
  IF track_scc # 0 /\ track = 0
  THEN (IF lead_msg.prob > 50
           /\ lead_msg.x - RADAR_TO_CAMERA < trks[track_scc].dRel - 500
        THEN 0 ELSE track_scc)
  ELSE track

\* the mutant: the global is reset when no lead is returned
LeadRecordReset(vEgo, rdy, trks, lead_msg, model_v_ego, g, track) ==
  IF track # 0
  THEN [ld |-> get_RadarState2(trks[track], lead_msg.prob, lead_msg),
        g |-> LEAD_ACCEL_TAU, w |-> 1]
  ELSE IF rdy /\ lead_msg.prob > 50
  THEN get_RadarState_from_vision(lead_msg, vEgo, model_v_ego, g)
  ELSE [ld |-> NoLead, g |-> LEAD_ACCEL_TAU, w |-> 1]

\* the mutant: the vision record is built before any modelV2 update
LeadRecordNoReady(vEgo, rdy, trks, lead_msg, model_v_ego, g, track) ==
  IF track # 0
  THEN [ld |-> get_RadarState2(trks[track], lead_msg.prob, lead_msg),
        g |-> LEAD_ACCEL_TAU, w |-> 1]
  ELSE IF lead_msg.prob > 50
  THEN get_RadarState_from_vision(lead_msg, vEgo, model_v_ego, g)
  ELSE [ld |-> NoLead, g |-> g, w |-> 0]

\* the mutant: projecting a Track leaves the global as it was
LeadRecordNoReset(vEgo, rdy, trks, lead_msg, model_v_ego, g, track) ==
  IF track # 0
  THEN [ld |-> get_RadarState2(trks[track], lead_msg.prob, lead_msg),
        g |-> g, w |-> 0]
  ELSE IF rdy /\ lead_msg.prob > 50
  THEN get_RadarState_from_vision(lead_msg, vEgo, model_v_ego, g)
  ELSE [ld |-> NoLead, g |-> g, w |-> 0]

\* lines 275-280: the record of the Track, else of vision, else none
LeadRecord(vEgo, rdy, trks, lead_msg, model_v_ego, g, track) ==
  IF track # 0
  THEN [ld |-> get_RadarState2(trks[track], lead_msg.prob, lead_msg),
        g |-> LEAD_ACCEL_TAU, w |-> 1]
  ELSE IF rdy /\ lead_msg.prob > 50
  THEN get_RadarState_from_vision(lead_msg, vEgo, model_v_ego, g)
  ELSE [ld |-> NoLead, g |-> g, w |-> 0]

\* the positions of the Tracks that are potential low-speed leads
LowSpeedTracks(trks, vEgo) ==
  SelectSeq(Positions(Len(trks)), LAMBDA i : potential_low_speed_lead(trks[i], vEgo))

ClosestLow(trks, low) ==
  trks[low[ArgMinFirst([k \in 1..Len(low) |-> trks[low[k]].dRel])]]

\* the mutant: the record is never replaced
LeadOverrideOff(lead_msg, low_speed_override, trks, low, ld) == ld

\* lines 282-289: the low-speed override
LeadOverride(lead_msg, low_speed_override, trks, low, ld) ==
  IF low_speed_override /\ Len(low) > 0
     /\ (~ld.status \/ ClosestLow(trks, low).dRel < ld.dRel)
  THEN get_RadarState2(ClosestLow(trks, low), lead_msg.prob, lead_msg)
  ELSE ld

LeadResult(vEgo, lead_msg, low_speed_override, trks, r) ==
  [ld |-> LeadOverride(lead_msg, low_speed_override, trks,
                       LowSpeedTracks(trks, vEgo), r.ld),
   g |-> r.g, w |-> r.w, tracks |-> trks]

LeadMatched(vEgo, rdy, lead_msg, model_v_ego, low_speed_override, g, m) ==
  LeadResult(vEgo, lead_msg, low_speed_override, m.tracks,
    LeadRecord(vEgo, rdy, m.tracks, lead_msg, model_v_ego, g,
      LeadTrack(lead_msg, m.tracks, m.track, TrackScc(m.tracks))))

\* the mutant: association runs before the first modelV2 update
get_leadNoReady(vEgo, rdy, trks, lead_msg, model_v_ego, low_speed_override, g) ==
  LeadMatched(vEgo, rdy, lead_msg, model_v_ego, low_speed_override, g,
    IF Len(trks) > 0 /\ lead_msg.prob > 50
    THEN match_vision_to_track(vEgo, lead_msg, trks)
    ELSE [track |-> 0, tracks |-> trks])

\* get_lead: [ld, g, w, tracks]
get_lead(vEgo, rdy, trks, lead_msg, model_v_ego, low_speed_override, g) ==
  LeadMatched(vEgo, rdy, lead_msg, model_v_ego, low_speed_override, g,
    IF Len(trks) > 0 /\ rdy /\ lead_msg.prob > 50
    THEN match_vision_to_track(vEgo, lead_msg, trks)
    ELSE [track |-> 0, tracks |-> trks])

\* a dict keyed by dRel: a later entry with the same key replaces the value
\* and keeps the place
DictPut(d, ld) ==
  IF \E i \in 1..Len(d) : d[i].dRel = ld.dRel
  THEN [i \in 1..Len(d) |-> IF d[i].dRel = ld.dRel THEN ld ELSE d[i]]
  ELSE Append(d, ld)

\* the mutant: the side lanes reach out to 1.8 lane widths
SideBucketPutWide(b, c, d_y, lane_width, lead_msg) ==
  IF Abs(d_y) * 2 < lane_width
  THEN [b EXCEPT !.center = DictPut(@, get_RadarState2(c, lead_msg.prob, lead_msg))]
  ELSE IF 0 - lane_width * 18 < d_y * 10 /\ d_y < 0
  THEN [b EXCEPT !.left = DictPut(@, get_RadarState(c, 0))]
  ELSE IF 0 < d_y /\ d_y * 10 < lane_width * 18
  THEN [b EXCEPT !.right = DictPut(@, get_RadarState(c, 0))]
  ELSE b

\* lines 325-334: the Track c, at deviation d_y from the path, is put in the
\* dict of its lane (next_lane_y = lane_width / 2 + lane_width * 0.8)
SideBucketPut(b, c, d_y, lane_width, lead_msg) ==
  IF Abs(d_y) * 2 < lane_width
  THEN [b EXCEPT !.center = DictPut(@, get_RadarState2(c, lead_msg.prob, lead_msg))]
  ELSE IF 0 - lane_width * 13 < d_y * 10 /\ d_y < 0
  THEN [b EXCEPT !.left = DictPut(@, get_RadarState(c, 0))]
  ELSE IF 0 < d_y /\ d_y * 10 < lane_width * 13
  THEN [b EXCEPT !.right = DictPut(@, get_RadarState(c, 0))]
  ELSE b

\* the three dicts of get_lead_side after the Tracks 1..n were bucketed
RECURSIVE SideBuckets(_, _, _, _, _)
SideBuckets(trks, n, md, lane_width, lead_msg) ==
  IF n = 0 THEN [center |-> <<>>, left |-> <<>>, right |-> <<>>]
  ELSE SideBucketPut(SideBuckets(trks, n - 1, md, lane_width, lead_msg), trks[n],
                     (0 - trks[n].yRel) - interp(trks[n].dRel, md.x, md.y),
                     lane_width, lead_msg)

\* the mutant: the nearest candidate whatever its distance
SideLeadAny(d) ==
  IF Len(d) > 0 THEN d[ArgMinFirst([k \in 1..Len(d) |-> d[k].dRel])] ELSE NoLead

\* min((lead for ... if lead['dRel'] > 5.0), key=lambda x: x['dRel'], default=...)
SideLead(d) ==
  LET far == SelectSeq(Positions(Len(d)), LAMBDA i : d[i].dRel > 500)
  IN IF Len(far) > 0
     THEN d[far[ArgMinFirst([k \in 1..Len(far) |-> d[far[k]].dRel])]]
     ELSE NoLead

\* lines 344-348: the nearest entry of leads_center, as a list
SideCenter(center) ==
  IF Len(center) > 0
  THEN <<center[ArgMinFirst([k \in 1..Len(center) |-> center[k].dRel])]>>
  ELSE <<>>

\* lines 336-363, from the three dicts b and the vision record vis
SideResult(lead_msg, g, b, vis) ==
  [ll |-> b.left,
   lc |-> SideCenter(IF lead_msg.prob > 50 THEN DictPut(b.center, vis.ld) ELSE b.center),
   lr |-> b.right,
   leadLeft |-> SideLead(b.left), leadRight |-> SideLead(b.right),
   g |-> IF lead_msg.prob > 50 THEN vis.g ELSE g,
   w |-> IF lead_msg.prob > 50 THEN vis.w ELSE 0]

\* get_lead_side: [ll, lc, lr, leadLeft, leadRight] and the global
get_lead_side(vEgo, trks, md, leads, lane_width, model_v_ego, g) ==
  IF Len(md.x) # TRAJECTORY_SIZE
  THEN [ll |-> <<>>, lc |-> <<>>, lr |-> <<>>, leadLeft |-> NoLead,
        leadRight |-> NoLead, g |-> g, w |-> 0]
  ELSE SideResult(leads[1], g,
                  SideBuckets(trks, Len(trks), md, lane_width, leads[1]),
                  get_RadarState_from_vision(leads[1], vEgo, model_v_ego, g))

\* line 385-388: the Track is in the center corridor
InCenter(c, md, lane_width) ==
  Abs((0 - c.yRel) - interp(c.dRel + c.vLat, md.x, md.y)) * 2
    < interp(c.dRel, <<0, 1000, 10000>>,
             <<150, lane_width, (lane_width * 6) \div 10>>)

\* min / max over a dict of Tracks given by their positions ks
NearestOf(trks, ks) == ks[ArgMinFirst([k \in 1..Len(ks) |-> trks[ks[k]].dRel])]

FastestOf(trks, ks) == ks[ArgMaxFirst([k \in 1..Len(ks) |-> trks[ks[k]].vRel])]

\* the mutant: the first matching Track is taken, not the nearest
ApilotPickFirst(lead_msg, trks, track_scc, match1, match2, fast) ==
  IF lead_msg.prob > 50
  THEN (IF Len(match1) > 0 THEN match1[1]
        ELSE IF Len(match2) > 0 THEN FastestOf(trks, match2)
        ELSE IF track_scc # 0
                /\ lead_msg.x - RADAR_TO_CAMERA > trks[track_scc].dRel - 500 THEN 0
        ELSE track_scc)
  ELSE IF Len(fast) > 0 THEN NearestOf(trks, fast)
  ELSE track_scc

\* the mutant: without vision the distance gate is applied all the same
ApilotPickGated(lead_msg, trks, track_scc, match1, match2, fast) ==
  IF lead_msg.prob > 50
  THEN (IF Len(match1) > 0 THEN NearestOf(trks, match1)
        ELSE IF Len(match2) > 0 THEN FastestOf(trks, match2)
        ELSE IF track_scc # 0
                /\ lead_msg.x - RADAR_TO_CAMERA > trks[track_scc].dRel - 500 THEN 0
        ELSE track_scc)
  ELSE IF Len(SelectSeq(fast, LAMBDA i :
                DistSane(trks[i].dRel, lead_msg.x - RADAR_TO_CAMERA))) > 0
  THEN NearestOf(trks, SelectSeq(fast, LAMBDA i :
                DistSane(trks[i].dRel, lead_msg.x - RADAR_TO_CAMERA)))
  ELSE track_scc

\* lines 395-427, from the dicts of center Tracks
ApilotPick(lead_msg, trks, track_scc, match1, match2, fast) ==
  IF lead_msg.prob > 50
  THEN (IF Len(match1) > 0 THEN NearestOf(trks, match1)
        ELSE IF Len(match2) > 0 THEN FastestOf(trks, match2)
        ELSE IF track_scc # 0
                /\ lead_msg.x - RADAR_TO_CAMERA > trks[track_scc].dRel - 500 THEN 0
        ELSE track_scc)
  ELSE IF Len(fast) > 0 THEN NearestOf(trks, fast)
  ELSE track_scc

ApilotCenter(vEgo, lead_msg, trks, center) ==
  ApilotPick(lead_msg, trks, TrackScc(trks),
    SelectSeq(center, LAMBDA i :
      /\ DistSane(trks[i].dRel, lead_msg.x - RADAR_TO_CAMERA)
      /\ Abs(trks[i].vRel + vEgo - lead_msg.v) < 1000),
    SelectSeq(center, LAMBDA i :
      /\ DistSane(trks[i].dRel, lead_msg.x - RADAR_TO_CAMERA)
      /\ trks[i].vRel + vEgo > -50),
    SelectSeq(center, LAMBDA i : trks[i].vRel + vEgo > 300))

\* match_vision_track_apilot: the position of the chosen Track, or 0
match_vision_track_apilot(vEgo, lead_msg, trks, md, lane_width) ==
  IF Len(trks) = 0 THEN TrackScc(trks)
  ELSE IF Len(md.x) # TRAJECTORY_SIZE THEN TrackScc(trks)
  ELSE ApilotCenter(vEgo, lead_msg, trks,
         SelectSeq(Positions(Len(trks)), LAMBDA i : InCenter(trks[i], md, lane_width)))

\* the mutant: the corridor strategy scores the Tracks as well
ApilotRecordScored(vEgo, trks, lead_msg, model_v_ego, g, track) ==
  IF track # 0
  THEN [ld |-> get_RadarState2(trks[track], lead_msg.prob, lead_msg),
        g |-> LEAD_ACCEL_TAU, w |-> 1, tracks |-> ScoreTracks(vEgo, lead_msg, trks)]
  ELSE IF lead_msg.prob > 50
  THEN [tracks |-> trks] @@ get_RadarState_from_vision(lead_msg, vEgo, model_v_ego, g)
  ELSE [ld |-> NoLead, g |-> g, w |-> 0, tracks |-> trks]

\* lines 436-443, from the Track chosen
ApilotRecord(vEgo, trks, lead_msg, model_v_ego, g, track) ==
  IF track # 0
  THEN [ld |-> get_RadarState2(trks[track], lead_msg.prob, lead_msg),
        g |-> LEAD_ACCEL_TAU, w |-> 1, tracks |-> trks]
  ELSE IF lead_msg.prob > 50
  THEN [tracks |-> trks] @@ get_RadarState_from_vision(lead_msg, vEgo, model_v_ego, g)
  ELSE [ld |-> NoLead, g |-> g, w |-> 0, tracks |-> trks]

\* get_lead_apilot: [ld, g, w, tracks]
get_lead_apilot(vEgo, rdy, trks, lead_msg, model_v_ego, md, lane_width, g) ==
  ApilotRecord(vEgo, trks, lead_msg, model_v_ego, g,
    IF Len(trks) > 0 /\ rdy
    THEN match_vision_track_apilot(vEgo, lead_msg, trks, md, lane_width)
    ELSE 0)

----------------------------------------------------------------------------
(* RadarD *)

\* a radar point is [trackId, dRel, yRel, vRel, aRel, measured]
\* ar_pts[pt.trackId] = [...]: a later point of the same id replaces the
\* values and keeps the place
ArPut(a, p) ==
  IF \E i \in 1..Len(a) : a[i].trackId = p.trackId
  THEN [i \in 1..Len(a) |-> IF a[i].trackId = p.trackId THEN p ELSE a[i]]
  ELSE Append(a, p)

\* ar_pts of RadarD.update, from the first n points
RECURSIVE ArPts(_, _)
ArPts(pts, n) ==
  IF n = 0 THEN <<>> ELSE ArPut(ArPts(pts, n - 1), pts[n])

PointIds(pts) == {pts[i].trackId : i \in 1..Len(pts)}

TrackIds(trks) == {trks[i].identifier : i \in 1..Len(trks)}

\* the mutant: a Track whose id is missing is kept
RemoveMissingNever(trks, ar_pts) == trks

\* for ids in list(self.tracks.keys()): if ids not in ar_pts: self.tracks.pop(ids, None)
RemoveMissing(trks, ar_pts) ==
  SelectSeq(trks, LAMBDA t : t.identifier \in PointIds(ar_pts))

\* the mutant: a missing Track is created and not updated in that cycle
ComputeTrackCreateOnly(trks, rpt, v_lead, tn, kp, ts) ==
  IF rpt.trackId \in TrackIds(trks)
  THEN [i \in 1..Len(trks) |->
          IF trks[i].identifier = rpt.trackId
          THEN Track_update(trks[i], rpt.dRel, rpt.yRel, rpt.vRel, v_lead,
                            rpt.measured, rpt.aRel, tn.aLeadTau, tn.aLeadTauStart, kp)
          ELSE trks[i]]
  ELSE Append(trks, Track(rpt.trackId, v_lead, rpt.yRel, kp, ts))

\* lines 506-508 for one id: the Track is created if it is missing, then updated
ComputeTrack(trks, rpt, v_lead, tn, kp, ts) ==
  IF rpt.trackId \in TrackIds(trks)
  THEN [i \in 1..Len(trks) |->
          IF trks[i].identifier = rpt.trackId
          THEN Track_update(trks[i], rpt.dRel, rpt.yRel, rpt.vRel, v_lead,
                            rpt.measured, rpt.aRel, tn.aLeadTau, tn.aLeadTauStart, kp)
          ELSE trks[i]]
  ELSE Append(trks,
         Track_update(Track(rpt.trackId, v_lead, rpt.yRel, kp, ts),
                      rpt.dRel, rpt.yRel, rpt.vRel, v_lead,
                      rpt.measured, rpt.aRel, tn.aLeadTau, tn.aLeadTauStart, kp))

\* for ids in ar_pts: ..., over the first n entries of ar_pts
RECURSIVE ComputeTracks(_, _, _, _, _, _, _)
ComputeTracks(trks, ar_pts, n, v_hist0, tn, kp, ts) ==
  IF n = 0 THEN trks
  ELSE ComputeTrack(ComputeTracks(trks, ar_pts, n - 1, v_hist0, tn, kp, ts),
                    ar_pts[n], ar_pts[n].vRel + v_hist0, tn, kp, ts)

\* lines 489-508: the Track map after the cycle's radar points
RefreshTracks(trks, ar_pts, v_hist0, tn, kp, ts) ==
  ComputeTracks(RemoveMissing(trks, ar_pts), ar_pts, Len(ar_pts), v_hist0, tn, kp, ts)

\* deque.append with maxlen
\* the mutant: a deque without maxlen
DequeAppendUnbounded(dq, x) == [dq EXCEPT !.q = Append(dq.q, x)]

DequeAppend(dq, x) ==
  [dq EXCEPT !.q = IF Len(dq.q) = dq.maxlen THEN Append(Tail(dq.q), x)
                   ELSE Append(dq.q, x)]

\* the mutant: the orchestrator enables the override
LowSpeedOverrideOn == TRUE

\* low_speed_override=False in both get_lead calls of RadarD.update
LowSpeedOverrideArg == FALSE

\* log.RadarState.new_message()
NewRadarState ==
  [leadOne |-> NoLead, leadTwo |-> NoLead, leadLeft |-> NoLead, leadRight |-> NoLead,
   leadsLeft |-> <<>>, leadsCenter |-> <<>>, leadsRight |-> <<>>]

\* lines 517-520
ModelVEgo(in, vEgo) == IF Len(in.trans) > 0 THEN in.trans[1] ELSE vEgo

\* the mutant: only the primary candidate follows the selector
LeadForPrimaryOnly(vEgo, rdy, trks, in, k, mix, g) ==
  IF mix = 2 /\ k = 1
  THEN get_lead_apilot(vEgo, rdy, trks, in.leads[k], ModelVEgo(in, vEgo),
                       in.md, in.laneWidth, g)
  ELSE get_lead(vEgo, rdy, trks, in.leads[k], ModelVEgo(in, vEgo),
                LowSpeedOverrideArg, g)

\* lines 523-528: the selection for candidate k under the strategy mix
LeadFor(vEgo, rdy, trks, in, k, mix, g) ==
  IF mix = 2
  THEN get_lead_apilot(vEgo, rdy, trks, in.leads[k], ModelVEgo(in, vEgo),
                       in.md, in.laneWidth, g)
  ELSE get_lead(vEgo, rdy, trks, in.leads[k], ModelVEgo(in, vEgo),
                LowSpeedOverrideArg, g)

SelectAssemble(one, two, side) ==
  [rs |-> [leadOne |-> one.ld, leadTwo |-> two.ld,
           leadLeft |-> side.leadLeft, leadRight |-> side.leadRight,
           leadsLeft |-> side.ll, leadsCenter |-> side.lc, leadsRight |-> side.lr],
   g |-> side.g, w |-> one.w + two.w + side.w, tracks |-> two.tracks]

SelectSide(vEgo, in, one, two) ==
  SelectAssemble(one, two,
    get_lead_side(vEgo, two.tracks, in.md, in.leads, in.laneWidth,
                  ModelVEgo(in, vEgo), two.g))

SelectTwo(vEgo, rdy, in, mix, one) ==
  SelectSide(vEgo, in, one, LeadFor(vEgo, rdy, one.tracks, in, 2, mix, one.g))

\* the mutant: a single candidate is still selected for
SelectLeadsSingle(vEgo, rdy, trks, in, mix, g) ==
  IF Len(in.leads) > 1
  THEN SelectTwo(vEgo, rdy, in, mix, LeadFor(vEgo, rdy, trks, in, 1, mix, g))
  ELSE IF Len(in.leads) = 1
  THEN [rs |-> [NewRadarState EXCEPT
                  !.leadOne = LeadFor(vEgo, rdy, trks, in, 1, mix, g).ld],
        g |-> LeadFor(vEgo, rdy, trks, in, 1, mix, g).g,
        w |-> LeadFor(vEgo, rdy, trks, in, 1, mix, g).w,
        tracks |-> LeadFor(vEgo, rdy, trks, in, 1, mix, g).tracks]
  ELSE [rs |-> NewRadarState, g |-> g, w |-> 0, tracks |-> trks]

\* lines 517-534 of RadarD.update: [rs, g, w, tracks]
SelectLeads(vEgo, rdy, trks, in, mix, g) ==
  IF Len(in.leads) > 1
  THEN SelectTwo(vEgo, rdy, in, mix, LeadFor(vEgo, rdy, trks, in, 1, mix, g))
  ELSE [rs |-> NewRadarState, g |-> g, w |-> 0, tracks |-> trks]

\* RadarD.__init__(radar_ts, delay)
RadarD_init(delay) ==
  /\ phase = "new"
  /\ IF KalmanParamsOk(radar_ts)
     THEN /\ phase' = "running"
          /\ kalman_params' = KalmanParams(radar_ts)
          /\ v_ego_hist' = [maxlen |-> delay + 1, q |-> <<0>>]
     ELSE /\ phase' = "failed"
          /\ UNCHANGED <<kalman_params, v_ego_hist>>
  /\ UNCHANGED <<radar_ts, tracks, gtau, v_ego, a_ego, ready, tun, radar_state,
                 radar_state_valid, inp, call, hist, gwrites, cycle>>

\* the mutant: radar errors do not clear the flag
RadarStateValidAnyErrors(all_checks, radar_errors) == all_checks

\* sm.all_checks() and len(radar_errors) == 0
RadarStateValid(all_checks, radar_errors) == all_checks /\ radar_errors = 0

\* the assignments of RadarD.update, from what it computed
UpdateAssign(in, tn, vEgo, vhist, rdy, radar_points, radar_errors, sel) ==
  /\ tun' = tn
  /\ v_ego' = vEgo
  /\ v_ego_hist' = vhist
  /\ a_ego' = IF in.carState_updated THEN in.aEgo ELSE a_ego
  /\ ready' = rdy
  /\ tracks' = sel.tracks
  /\ radar_state_valid' = RadarStateValid(in.all_checks, radar_errors)
  /\ radar_state' = sel.rs
  /\ gtau' = sel.g
  /\ gwrites' = sel.w
  /\ hist' = Append(hist, PointIds(radar_points))

UpdateSelect(in, tn, vEgo, vhist, rdy, radar_points, radar_errors) ==
  UpdateAssign(in, tn, vEgo, vhist, rdy, radar_points, radar_errors,
    SelectLeads(vEgo, rdy,
      RefreshTracks(tracks, ArPts(radar_points, Len(radar_points)), vhist.q[1],
                    tn, kalman_params, radar_ts),
      in, tn.mixRadarInfo, gtau))

\* the mutant: a failed read is replaced by a default and the cycle goes on
ParamsRaiseNever(in) == FALSE

\* lines 470-472: paramFail = n > 0 says that the n-th read of a live tunable
\* (MixRadarInfo, ALeadTau, ALeadTauStart) fails; the read raises
ParamsRaise(in) == in.paramFail # 0

\* the tunables assigned before the failing read raised
ParamsPartial(in) ==
  [mixRadarInfo  |-> IF in.paramFail > 1 THEN in.MixRadarInfo ELSE tun.mixRadarInfo,
   aLeadTau      |-> IF in.paramFail > 2 THEN in.ALeadTau * 100 ELSE tun.aLeadTau,
   aLeadTauStart |-> tun.aLeadTauStart]

\* RadarD.update leaves by the exception of a failed read
RadarD_updateRaise(in) ==
  /\ tun' = ParamsPartial(in)
  /\ phase' = "raised"
  /\ UNCHANGED <<tracks, gtau, v_ego, v_ego_hist, a_ego, ready, radar_state,
                 radar_state_valid, hist, gwrites, cycle>>

\* RadarD.update runs to its end
RadarD_updateRun(in) ==
  /\ UpdateSelect(in,
       [mixRadarInfo |-> in.MixRadarInfo, aLeadTau |-> in.ALeadTau * 100,
        aLeadTauStart |-> in.ALeadTauStart],
       IF in.carState_updated THEN in.vEgo ELSE v_ego,
       IF in.carState_updated THEN DequeAppend(v_ego_hist, in.vEgo) ELSE v_ego_hist,
       ready \/ in.modelV2_updated,
       IF in.rr_none THEN <<>> ELSE in.points,
       IF in.rr_none THEN 0 ELSE in.errors)
  /\ cycle' = cycle + 1
  /\ phase' = phase

\* RadarD.update(sm, rr)
RadarD_update(in) ==
  /\ phase = "running"
  /\ cycle < MaxCycles
  /\ IF ParamsRaise(in) THEN RadarD_updateRaise(in) ELSE RadarD_updateRun(in)
  /\ inp' = in
  /\ UNCHANGED <<radar_ts, kalman_params, call>>

----------------------------------------------------------------------------
(* The inputs the model draws *)

P(id, d, y, v) ==
  [trackId |-> id, dRel |-> d, yRel |-> y, vRel |-> v, aRel |-> 0, measured |-> TRUE]

L(x, y, v, prob) ==
  [x |-> x, y |-> y, v |-> v, a |-> 0, prob |-> prob,
   xStd |-> 200, yStd |-> 50, vStd |-> 100]

\* modelV2.position: TRAJECTORY_SIZE points, 6 m apart, along a straight path
StraightPath ==
  [x |-> [i \in 1..TRAJECTORY_SIZE |-> (i - 1) * 600],
   y |-> [i \in 1..TRAJECTORY_SIZE |-> 0]]

\* the position of a modelV2 message that was never filled
EmptyPath == [x |-> <<>>, y |-> <<>>]

\* the radar point lists of a cycle
PtsSet ==
  { <<>>,
    <<P(1, 500, 20, 0)>>,
    <<P(1, 800, 20, 100)>>,
    <<P(1, 801, 30, 100)>>,
    <<P(1, 800, 30, 201)>>,
    <<P(2, 2000, -250, 500), P(1, 500, 20, 0)>>,
    <<P(1, 500, 20, 0), P(1, 2000, 0, -100)>>,
    <<P(0, 3000, 0, 0), P(1, 500, 20, 0)>> }

\* the rest of a cycle's input: sm (carState, modelV2, lateralPlan), the
\* radar errors and the live tunables
Env(car, model, leads, mix) ==
  [rr_none |-> FALSE, points |-> <<>>, errors |-> 0, carState_updated |-> car,
   vEgo |-> 200, aEgo |-> 0, modelV2_updated |-> model, all_checks |-> car /\ model,
   leads |-> leads, trans |-> <<>>,
   md |-> IF model THEN StraightPath ELSE EmptyPath,
   laneWidth |-> 360, MixRadarInfo |-> mix, ALeadTau |-> 150, ALeadTauStart |-> 50,
   paramFail |-> 0]

EnvBase == Env(TRUE, TRUE, <<L(3152, 0, 200, 60), L(6152, 0, 200, 20)>>, 0)

EnvSet ==
  { EnvBase,
    Env(TRUE, TRUE, <<L(3152, 0, 200, 60), L(6152, 0, 200, 20)>>, 2),
    Env(TRUE, TRUE, <<L(3152, 0, 200, 60), L(6152, 0, 200, 70)>>, 0),
    Env(TRUE, TRUE, <<L(652, -20, 200, 95), L(3152, 0, 200, 60)>>, 0),
    Env(TRUE, TRUE, <<L(652, -20, 200, 95), L(3152, 0, 200, 20)>>, 2),
    Env(FALSE, FALSE, <<>>, 0) }

MkIn(pts, env) == [env EXCEPT !.points = pts]

\* every point list under the base environment, two point lists under every
\* environment, and a cycle without a radar message
Inputs ==
  {MkIn(pts, EnvBase) : pts \in PtsSet}
  \cup {MkIn(<<P(1, 500, 20, 0)>>, env) : env \in EnvSet}
  \cup {MkIn(<<>>, env) : env \in EnvSet}
  \cup {[EnvBase EXCEPT !.rr_none = TRUE]}

DelaySet == {0, 1}

RadarTsSet == {5, 10, 50, 200, 250}

----------------------------------------------------------------------------
(* The orchestrator: construction, then one update per radar sample *)

RadarStateNone == [status |-> "None"]

NoInput == [Env(FALSE, FALSE, <<>>, 0) EXCEPT !.rr_none = TRUE]

NoCall == [fn |-> "none", k |-> 0, lso |-> FALSE, g0 |-> 0, track |-> 0,
           ld |-> NoLead, side |-> <<>>]

DefaultTun == [mixRadarInfo |-> 0, aLeadTau |-> 15000, aLeadTauStart |-> 50]

InitFields ==
  /\ phase = "new"
  /\ kalman_params = [A01 |-> 0, K0 |-> 0, K1 |-> 0]
  /\ tracks = <<>>
  /\ gtau = LEAD_ACCEL_TAU
  /\ v_ego = 0
  /\ v_ego_hist = [maxlen |-> 1, q |-> <<0>>]
  /\ a_ego = 0
  /\ ready = FALSE
  /\ tun = DefaultTun
  /\ radar_state = RadarStateNone
  /\ radar_state_valid = FALSE
  /\ inp = NoInput
  /\ call = NoCall
  /\ hist = <<>>
  /\ gwrites = 0
  /\ cycle = 0
  /\ pc = "start"
  /\ reads = [some |-> 0, none |-> 0]
  /\ sent = <<>>
  /\ OthersAbsent

Init == radar_ts \in RadarTsSet /\ InitFields

Construct == (\E delay \in DelaySet : RadarD_init(delay)) /\ UNCHANGED <<tvars, ovars>>

Update == (\E in \in Inputs : RadarD_update(in)) /\ UNCHANGED <<tvars, ovars>>

Next == Construct \/ Update

Spec == Init /\ [][Next]_vars

----------------------------------------------------------------------------
(* Cycles under a changing strategy selector: MixRadarInfo 0, 1 or 2 is     *)
(* read anew in every cycle, with Tracks and candidates on which the two    *)
(* strategies disagree                                                      *)

\* a center Track at 8 m doing 4 m/s over ground, alone or with a Track of a
\* smaller id 20 m ahead in the next lane
SelPts ==
  { <<P(3, 800, 30, 201)>>,
    <<P(3, 800, 30, 201), P(2, 2000, -250, 500)>> }

\* the primary candidate at 30 m, the secondary at 60 m with confidence 0.2
\* or at 8.5 m with confidence 0.7
SelLeads ==
  { <<L(3152, 0, 200, 60), L(6152, 0, 200, 20)>>,
    <<L(3152, 0, 200, 60), L(1002, 0, 400, 70)>> }

SelInputs ==
  { MkIn(pts, Env(TRUE, TRUE, leads, mix)) :
      pts \in SelPts, leads \in SelLeads, mix \in 0..2 }

InitSel == radar_ts = 50 /\ InitFields

UpdateSel == (\E in \in SelInputs : RadarD_update(in)) /\ UNCHANGED <<tvars, ovars>>

NextSel == Construct \/ UpdateSel

SpecSel == InitSel /\ [][NextSel]_vars

----------------------------------------------------------------------------
(* Cycles under a rising ego speed: every carState message reports 1 m/s    *)
(* more than the one before, so that v_ego / 1 m/s is the number of         *)
(* carState updates so far; the radar delay is 0..MaxDelay                  *)

\* no point, or a point at 5 m pulling away at 1 m/s
EgoPts == { <<>>, <<P(1, 500, 20, 100)>> }

\* the primary candidate is at the Track's place doing 12.5 m/s: the Track
\* passes the velocity gate at an ego speed of 2 m/s and fails it at 1 m/s
EgoLeads == <<L(652, -20, 1250, 60), L(6152, 0, 200, 20)>>

EgoInputs ==
  { [MkIn(pts, Env(car, TRUE, EgoLeads, 0)) EXCEPT !.vEgo = v_ego + 100] :
      pts \in EgoPts, car \in BOOLEAN }

InitEgo == radar_ts = 50 /\ InitFields

ConstructEgo ==
  (\E delay \in 0..MaxDelay : RadarD_init(delay)) /\ UNCHANGED <<tvars, ovars>>

UpdateEgo == (\E in \in EgoInputs : RadarD_update(in)) /\ UNCHANGED <<tvars, ovars>>

NextEgo == ConstructEgo \/ UpdateEgo

SpecEgo == InitEgo /\ [][NextEgo]_vars

----------------------------------------------------------------------------
(* Cycles around the first modelV2 update: sm['modelV2'] carries two lead   *)
(* candidates, one or none (the message may have arrived while no radar     *)
(* sample was read), and sm.updated['modelV2'] is true or false             *)

\* the sentinel Track 0 at 30 m with a Track at 6 m, the latter alone, or
\* the sentinel alone
ReadyPts ==
  { <<P(0, 3000, 0, 0), P(1, 600, 20, 0)>>,
    <<P(1, 600, 20, 0)>>,
    <<P(0, 3000, 0, 0)>> }

\* the primary candidate sits on Track 1 with confidence 0.95 or 0.4; the
\* secondary has confidence 0.2 or 0.6, or is missing
ReadyLeads ==
  { <<L(752, -20, 200, 95), L(6152, 0, 200, 20)>>,
    <<L(752, -20, 200, 40), L(3152, 0, 200, 60)>>,
    <<L(752, -20, 200, 40), L(6152, 0, 200, 20)>>,
    <<L(752, -20, 200, 95)>>,
    <<>> }

ReadyInputs ==
  { [MkIn(pts, Env(TRUE, model, leads, 0)) EXCEPT !.md = StraightPath] :
      pts \in ReadyPts, model \in BOOLEAN, leads \in ReadyLeads }

InitReady == radar_ts = 50 /\ InitFields

UpdateReady == (\E in \in ReadyInputs : RadarD_update(in)) /\ UNCHANGED <<tvars, ovars>>

NextReady == Construct \/ UpdateReady

SpecReady == InitReady /\ [][NextReady]_vars

----------------------------------------------------------------------------
(* Construction over every sample interval of 1..MaxDtMs ms, followed by   *)
(* updates from a small set of inputs                                      *)

InitInputs == {MkIn(<<>>, EnvBase), MkIn(<<P(1, 500, 20, 0)>>, EnvBase)}

InitAnyDt == radar_ts \in 1..MaxDtMs /\ InitFields

UpdateFew == (\E in \in InitInputs : RadarD_update(in)) /\ UNCHANGED <<tvars, ovars>>

NextInit == Construct \/ UpdateFew

SpecInit == InitAnyDt /\ [][NextInit]_vars

----------------------------------------------------------------------------
(* The association and selection functions, called one at a time on        *)
(* arguments drawn from bounded sets.  The Tracks are those RadarD.update  *)
(* builds from one or two cycles of radar points.                          *)

AssocPts ==
  { <<>>,
    <<P(1, 3000, 0, 0)>>,
    <<P(1, 3250, 0, 0)>>,
    <<P(1, 3349, 0, 0)>>,
    <<P(1, 500, 20, 0)>>,
    <<P(1, 300, -250, 0)>>,
    <<P(2, 2000, -250, 500), P(1, 500, 20, 0)>>,
    <<P(1, 300, -250, 0), P(2, 2000, -250, 0), P(3, 2500, 250, 0)>>,
    <<P(1, 500, -250, 0), P(2, 501, -250, 0), P(3, 2000, -250, 0)>>,
    <<P(0, 3000, 0, 0), P(1, 500, 20, 0)>>,
    <<P(1, 4000, 700, 0), P(2, 5000, 0, -300)>>,
    <<P(1, 5000, 0, -1200), P(2, 3300, 150, -200)>>,
    <<P(0, 3000, 0, 0)>>,
    <<P(1, 5200, 0, 100), P(2, 4800, 0, 0)>>,
    <<P(1, 2000, -500, 0), P(2, 2500, -180, 0)>>,
    <<P(1, 2000, 250, 0), P(2, 2000, 300, 0)>>,
    <<P(1, 75, 0, 0), P(2, 2500, 0, 0), P(3, 500, 100, 0)>>,
    <<P(1, 2499, -99, 0), P(2, 76, 99, 0)>> }

\* the points of the cycle before: none, or Track 1 seen 1 m further left
AssocPrev == { <<>>, <<P(1, 500, 120, 0)>> }

AssocLeads ==
  { <<L(5152, 0, 200, 60), L(652, -20, 200, 95)>>,
    <<L(652, -20, 200, 95), L(5152, 0, 200, 20)>>,
    <<L(3152, 0, 1500, 40), L(5152, 0, 200, 90)>> }

\* one input carries modelV2.temporalPose.trans, the others leave it empty;
\* one has a candidate at 13 m/s seen from 15 m/s, the last has an ego speed
\* of exactly V_EGO_STATIONARY
AssocInputs ==
  { [Env(TRUE, model, leads, 0) EXCEPT !.vEgo = ve] :
      model \in BOOLEAN, leads \in AssocLeads, ve \in {200, 1500} }
  \cup { [Env(TRUE, TRUE, <<L(5152, 0, 200, 60), L(652, -20, 200, 95)>>, 0)
           EXCEPT !.trans = <<250>>],
         [Env(TRUE, TRUE, <<L(5152, 0, 1300, 60), L(652, -20, 200, 95)>>, 0)
           EXCEPT !.vEgo = 1500],
         [Env(TRUE, TRUE, <<L(5152, 0, 200, 60), L(652, -20, 200, 95)>>, 0)
           EXCEPT !.vEgo = V_EGO_STATIONARY] }

\* global_vision_aLeadTau after n vision-only records
RECURSIVE DecayedTau(_)
DecayedTau(n) ==
  IF n = 0 THEN LEAD_ACCEL_TAU
  ELSE get_RadarState_from_vision(L(0, 0, 0, 0), 0, 0, DecayedTau(n - 1)).g

InitAssoc ==
  /\ radar_ts = 50
  /\ phase = "running"
  /\ kalman_params = KalmanParams(50)
  /\ inp \in AssocInputs
  /\ \E prev \in AssocPrev, pts \in AssocPts :
       tracks = RefreshTracks(
                  RefreshTracks(<<>>, ArPts(prev, Len(prev)), inp.vEgo, DefaultTun,
                                KalmanParams(50), 50),
                  ArPts(pts, Len(pts)), inp.vEgo, DefaultTun, KalmanParams(50), 50)
  /\ gtau \in {DecayedTau(0), DecayedTau(16)}
  /\ v_ego = inp.vEgo
  /\ v_ego_hist = [maxlen |-> 1, q |-> <<inp.vEgo>>]
  /\ a_ego = 0
  /\ ready \in BOOLEAN
  /\ tun = DefaultTun
  /\ radar_state = RadarStateNone
  /\ radar_state_valid = FALSE
  /\ call = NoCall
  /\ hist = <<>>
  /\ gwrites = 0
  /\ cycle = 0
  /\ pc = "start"
  /\ reads = [some |-> 0, none |-> 0]
  /\ sent = <<>>
  /\ OthersAbsent

CallFrame == UNCHANGED <<phase, radar_ts, kalman_params, v_ego, v_ego_hist, a_ego,
                         ready, tun, radar_state, radar_state_valid, inp, hist,
                         pc, reads, sent, ovars>>

CallDone(fn, k, lso, track, r) ==
  /\ call' = [fn |-> fn, k |-> k, lso |-> lso, g0 |-> gtau, track |-> track,
              ld |-> r.ld, side |-> r.side]
  /\ tracks' = r.tracks
  /\ gtau' = r.g
  /\ gwrites' = r.w
  /\ cycle' = cycle + 1
  /\ CallFrame

Call_match_vision_to_track(k) ==
  /\ cycle < MaxCalls
  /\ Len(tracks) > 0
  /\ LET m == match_vision_to_track(v_ego, inp.leads[k], tracks)
     IN CallDone("match_vision_to_track", k, FALSE, m.track,
                 [ld |-> NoLead, side |-> <<>>, tracks |-> m.tracks, g |-> gtau, w |-> 0])

Call_match_vision_track_apilot(k) ==
  /\ cycle < MaxCalls
  /\ CallDone("match_vision_track_apilot", k, FALSE,
              match_vision_track_apilot(v_ego, inp.leads[k], tracks, inp.md, inp.laneWidth),
              [ld |-> NoLead, side |-> <<>>, tracks |-> tracks, g |-> gtau, w |-> 0])

Call_get_lead(k, lso) ==
  /\ cycle < MaxCalls
  /\ CallDone("get_lead", k, lso, 0,
              [side |-> <<>>] @@
              get_lead(v_ego, ready, tracks, inp.leads[k], ModelVEgo(inp, v_ego), lso, gtau))

Call_get_lead_apilot(k) ==
  /\ cycle < MaxCalls
  /\ CallDone("get_lead_apilot", k, FALSE, 0,
              [side |-> <<>>] @@
              get_lead_apilot(v_ego, ready, tracks, inp.leads[k], ModelVEgo(inp, v_ego),
                              inp.md, inp.laneWidth, gtau))

SideCall(r) ==
  CallDone("get_lead_side", 1, FALSE, 0,
           [ld |-> NoLead, side |-> r, tracks |-> tracks, g |-> r.g, w |-> r.w])

Call_get_lead_side ==
  /\ cycle < MaxCalls
  /\ SideCall(get_lead_side(v_ego, tracks, inp.md, inp.leads, inp.laneWidth,
                            ModelVEgo(inp, v_ego), gtau))

NextAssoc ==
  \/ \E k \in 1..2 : Call_match_vision_to_track(k)
  \/ \E k \in 1..2 : Call_match_vision_track_apilot(k)
  \/ \E k \in 1..2, lso \in BOOLEAN : Call_get_lead(k, lso)
  \/ \E k \in 1..2 : Call_get_lead_apilot(k)
  \/ Call_get_lead_side

SpecAssoc == InitAssoc /\ [][NextAssoc]_vars

----------------------------------------------------------------------------
(* radard_thread: the loop that reads a radar sample, updates and          *)
(* publishes.  pc is "start" before RadarD is constructed, then "read",    *)
(* "update", "publish", "publish_liveTracks", "monitor" around the loop,   *)
(* and "dead" once an exception left the thread.                           *)

\* the variables of RadarD and of the module
rvars == <<phase, radar_ts, kalman_params, tracks, gtau, v_ego, v_ego_hist, a_ego,
           ready, tun, radar_state, radar_state_valid, call, hist, gwrites, cycle>>

\* what RI.update returns: None, or the points and the errors of a sample
ThreadSamples ==
  { [none |-> TRUE,  points |-> <<>>, errors |-> 0],
    [none |-> FALSE, points |-> <<>>, errors |-> 0],
    [none |-> FALSE, points |-> <<P(1, 500, 20, 0)>>, errors |-> 0],
    [none |-> FALSE, points |-> <<P(1, 500, 20, 0)>>, errors |-> 1] }

\* what sm holds after sm.update(0) and what the reads of the tunables give:
\* all fresh, a failed freshness check, and a failing first, second or third
\* read
ThreadEnvs ==
  { EnvBase,
    [EnvBase EXCEPT !.all_checks = FALSE] }
  \cup { [EnvBase EXCEPT !.paramFail = n, !.MixRadarInfo = 2, !.ALeadTau = 120] :
           n \in 1..3 }

\* the mutant: a None result is passed on to RadarD.update
ThreadNextAlways(rr) == "update"

\* if rr is None: continue
ThreadNext(rr) == IF rr.none THEN "read" ELSE "update"

\* RadarD(CP.radarTimeStep, RI.delay)
Thread_start ==
  /\ pc = "start"
  /\ \E delay \in DelaySet : RadarD_init(delay)
  /\ pc' = IF KalmanParamsOk(radar_ts) THEN "read" ELSE "dead"
  /\ UNCHANGED <<reads, sent, ovars>>

\* rr = RI.update(can_strings)
Thread_read ==
  /\ pc = "read"
  /\ \E rr \in ThreadSamples :
       /\ IF rr.none THEN reads.none < MaxNone ELSE cycle < MaxCycles
       /\ reads' = IF rr.none THEN [reads EXCEPT !.none = @ + 1]
                   ELSE [reads EXCEPT !.some = @ + 1]
       /\ inp' = [NoInput EXCEPT !.rr_none = rr.none, !.points = rr.points,
                                 !.errors = rr.errors]
       /\ pc' = ThreadNext(rr)
  /\ UNCHANGED <<rvars, sent, ovars>>

\* sm.update(0); RD.update(sm, rr)
Thread_update ==
  /\ pc = "update"
  /\ \E env \in ThreadEnvs :
       /\ RadarD_update([env EXCEPT !.rr_none = inp.rr_none, !.points = inp.points,
                                    !.errors = inp.errors])
       /\ pc' = IF ParamsRaise(env) THEN "dead" ELSE "publish"
  /\ UNCHANGED <<reads, sent, ovars>>

\* sorted(self.tracks.keys())
RECURSIVE SortedIds(_)
SortedIds(ids) ==
  IF ids = {} THEN <<>>
  ELSE LET m == CHOOSE x \in ids : \A y \in ids : x <= y
       IN <<m>> \o SortedIds(ids \ {m})

\* the Track of the map that has the identifier tid
TrackOfId(trks, tid) ==
  trks[CHOOSE i \in 1..Len(trks) : trks[i].identifier = tid]

\* one entry of tracks_msg.liveTracks
LiveTrack(t) ==
  [trackId |-> t.identifier, dRel |-> t.dRel, yRel |-> t.yRel, vRel |-> t.vRel,
   aRel |-> t.aRel, vLat |-> t.vLat]

\* the mutant: the entries follow the order of the map
LiveTracksUnsorted(trks) == [k \in 1..Len(trks) |-> LiveTrack(trks[k])]

\* lines 548-556: one entry per key of self.tracks, in sorted order
LiveTracks(trks) ==
  [k \in 1..Len(trks) |->
     LiveTrack(TrackOfId(trks, SortedIds(TrackIds(trks))[k]))]

\* RadarD.publish, first half: pm.send("radarState", radar_msg)
RadarD_publish_radarState ==
  /\ pc = "publish"
  /\ radar_state # RadarStateNone
  /\ sent' = Append(sent, [topic |-> "radarState", valid |-> radar_state_valid,
                           cycle |-> cycle, ids |-> <<>>, liveTracks |-> <<>>])
  /\ pc' = "publish_liveTracks"
  /\ UNCHANGED <<rvars, inp, reads, ovars>>

\* RadarD.publish, second half: pm.send('liveTracks', tracks_msg)
RadarD_publish_liveTracks ==
  /\ pc = "publish_liveTracks"
  /\ sent' = Append(sent, [topic |-> "liveTracks", valid |-> radar_state_valid,
                           cycle |-> cycle, ids |-> SortedIds(TrackIds(tracks)),
                           liveTracks |-> LiveTracks(tracks)])
  /\ pc' = "monitor"
  /\ UNCHANGED <<rvars, inp, reads, ovars>>

\* rk.monitor_time(), and back to the head of the loop
Thread_monitor_time ==
  /\ pc = "monitor"
  /\ pc' = "read"
  /\ UNCHANGED <<rvars, inp, reads, sent, ovars>>

InitThread == radar_ts \in {50, 200} /\ InitFields

NextThread ==
  \/ Thread_start
  \/ Thread_read
  \/ Thread_update
  \/ RadarD_publish_radarState
  \/ RadarD_publish_liveTracks
  \/ Thread_monitor_time

SpecThread == InitThread /\ [][NextThread]_vars

----------------------------------------------------------------------------
(* The same loop over samples of several Tracks: the samples name id 2      *)
(* before id 1, and between them the point of id 2 moves 0.1 m sideways     *)

PubSamples ==
  { [none |-> FALSE, points |-> <<>>, errors |-> 0],
    [none |-> FALSE, points |-> <<P(1, 500, 20, 0)>>, errors |-> 0],
    [none |-> FALSE, points |-> <<P(2, 2000, -250, 500), P(1, 500, 20, 0)>>,
     errors |-> 0],
    [none |-> FALSE, points |-> <<P(2, 2000, -240, 500), P(1, 500, 20, 0)>>,
     errors |-> 0] }

\* rr = RI.update(can_strings), never None
Pub_read ==
  /\ pc = "read"
  /\ cycle < MaxCycles
  /\ \E rr \in PubSamples :
       /\ reads' = [reads EXCEPT !.some = @ + 1]
       /\ inp' = [NoInput EXCEPT !.rr_none = rr.none, !.points = rr.points,
                                 !.errors = rr.errors]
       /\ pc' = ThreadNext(rr)
  /\ UNCHANGED <<rvars, sent, ovars>>

\* sm.update(0); RD.update(sm, rr), with everything fresh
Pub_update ==
  /\ pc = "update"
  /\ RadarD_update([EnvBase EXCEPT !.rr_none = inp.rr_none, !.points = inp.points,
                                   !.errors = inp.errors])
  /\ pc' = "publish"
  /\ UNCHANGED <<reads, sent, ovars>>

InitPub == radar_ts = 50 /\ InitFields

NextPub ==
  \/ Thread_start
  \/ Pub_read
  \/ Pub_update
  \/ RadarD_publish_radarState
  \/ RadarD_publish_liveTracks
  \/ Thread_monitor_time

SpecPub == InitPub /\ [][NextPub]_vars

----------------------------------------------------------------------------
(* Track.update, called again and again on one Track with measurements and *)
(* tunables drawn from small sets                                          *)

\* the measurements offered to the Track t: at 5 m or 10 m (a change of the
\* two trips the gate), at the speed measured last or, in the first MaxAccel
\* calls, 1 m/s faster (within the gate)
TrackMeas(t) ==
  { [dRel |-> d, vRel |-> v] :
      d \in {500, 1000},
      v \in {t.vRel} \cup (IF cycle < MaxAccel THEN {t.vRel + 100} ELSE {}) }

\* the tunables passed to the call: base aLeadTau 1.5 or 1.2, aLeadTauStart
\* 0.5, 0.2 or 0
TrackTunables ==
  { [mixRadarInfo |-> 0, aLeadTau |-> b, aLeadTauStart |-> st] :
      b \in {15000, 12000}, st \in {50, 20, 0} }

InitTrack ==
  /\ radar_ts = 50
  /\ phase = "running"
  /\ kalman_params = KalmanParams(50)
  /\ tracks = <<Track(1, 200, 20, KalmanParams(50), 50)>>
  /\ gtau = LEAD_ACCEL_TAU
  /\ v_ego = 200
  /\ v_ego_hist = [maxlen |-> 1, q |-> <<200>>]
  /\ a_ego = 0
  /\ ready = FALSE
  /\ tun = DefaultTun
  /\ radar_state = RadarStateNone
  /\ radar_state_valid = FALSE
  /\ inp = NoInput
  /\ call = NoCall
  /\ hist = <<>>
  /\ gwrites = 0
  /\ cycle = 0
  /\ pc = "start"
  /\ reads = [some |-> 0, none |-> 0]
  /\ sent = <<>>
  /\ OthersAbsent

\* self.tracks[ids].update(...) on the one Track
Call_Track_update ==
  /\ cycle < MaxUpdates
  /\ \E m \in TrackMeas(tracks[1]), tn \in TrackTunables :
       /\ tracks' = <<Track_update(tracks[1], m.dRel, 20, m.vRel, m.vRel + v_ego,
                                   TRUE, 0, tn.aLeadTau, tn.aLeadTauStart,
                                   kalman_params)>>
       /\ tun' = tn
  /\ call' = [NoCall EXCEPT !.fn = "Track.update"]
  /\ cycle' = cycle + 1
  /\ UNCHANGED <<phase, radar_ts, kalman_params, gtau, v_ego, v_ego_hist, a_ego,
                 ready, radar_state, radar_state_valid, inp, hist, gwrites,
                 pc, reads, sent, ovars>>

NextTrack == Call_Track_update

SpecTrack == InitTrack /\ [][NextTrack]_vars

----------------------------------------------------------------------------
(* The global decay scalar over a run of selections: vision records built  *)
(* by get_RadarState_from_vision and get_lead calls on a map of one Track  *)

\* the candidates: one that the Track at 30 m matches, one at 60 m that it
\* does not match, and one below 0.5
DecayLeads == {L(3152, 0, 200, 60), L(6152, 0, 200, 60), L(6152, 0, 200, 20)}

InitDecay ==
  /\ radar_ts = 50
  /\ phase = "running"
  /\ kalman_params = KalmanParams(50)
  /\ tracks = RefreshTracks(<<>>, <<P(1, 3000, 0, 0)>>, 200, DefaultTun,
                            KalmanParams(50), 50)
  /\ gtau = LEAD_ACCEL_TAU
  /\ v_ego = 200
  /\ v_ego_hist = [maxlen |-> 1, q |-> <<200>>]
  /\ a_ego = 0
  /\ ready = TRUE
  /\ tun = DefaultTun
  /\ radar_state = RadarStateNone
  /\ radar_state_valid = FALSE
  /\ inp = NoInput
  /\ call = NoCall
  /\ hist = <<>>
  /\ gwrites = 0
  /\ cycle = 0
  /\ pc = "start"
  /\ reads = [some |-> 0, none |-> 0]
  /\ sent = <<>>
  /\ OthersAbsent

DecayFrame == UNCHANGED <<phase, radar_ts, kalman_params, v_ego, v_ego_hist, a_ego,
                          ready, tun, radar_state, radar_state_valid, inp, hist,
                          pc, reads, sent, ovars>>

DecayDone(fn, r) ==
  /\ call' = [NoCall EXCEPT !.fn = fn, !.g0 = gtau, !.ld = r.ld]
  /\ gtau' = r.g
  /\ gwrites' = r.w
  /\ cycle' = cycle + 1
  /\ DecayFrame

\* get_RadarState_from_vision(lead_msg, v_ego, model_v_ego)
Decay_get_RadarState_from_vision ==
  /\ cycle < MaxDecays
  /\ \E lead \in DecayLeads :
       DecayDone("get_RadarState_from_vision",
                 get_RadarState_from_vision(lead, v_ego, v_ego, gtau))
  /\ UNCHANGED tracks

DecayLead(r) == DecayDone("get_lead", r) /\ tracks' = r.tracks

\* get_lead(v_ego, ready, tracks, lead_msg, model_v_ego, low_speed_override=False)
Decay_get_lead ==
  /\ cycle < MaxDecays
  /\ \E lead \in DecayLeads :
       DecayLead(get_lead(v_ego, ready, tracks, lead, v_ego, FALSE, gtau))

NextDecay == Decay_get_RadarState_from_vision \/ Decay_get_lead

SpecDecay == InitDecay /\ [][NextDecay]_vars

----------------------------------------------------------------------------
(* Properties of the orchestrator (checked under Spec) *)

\* the radar points the last cycle was given
CyclePts == IF inp.rr_none THEN <<>> ELSE inp.points

\* the last point of the cycle that carries the id
LastPoint(id) ==
  CyclePts[CHOOSE i \in 1..Len(CyclePts) :
             /\ CyclePts[i].trackId = id
             /\ \A j \in (i + 1)..Len(CyclePts) : CyclePts[j].trackId # id]

\* C1: after every update cycle the ids of the Track map are exactly the
\* trackIds of that cycle's radar points, one Track per id, also when the
\* point list repeats an id; an id absent from the points is gone.
C1_TrackPopulation ==
  cycle > 0 =>
    /\ TrackIds(tracks) = {CyclePts[i].trackId : i \in 1..Len(CyclePts)}
    /\ \A i, j \in 1..Len(tracks) :
         tracks[i].identifier = tracks[j].identifier => i = j

\* C1 witness: id 2 was tracked in the cycle before, the last cycle's point
\* list names id 1 twice and not id 2, and the map holds id 1 only.
C1_Witness ==
  /\ cycle >= 2
  /\ 2 \in hist[cycle - 1]
  /\ Len(CyclePts) = 2
  /\ CyclePts[1].trackId = 1 /\ CyclePts[2].trackId = 1
  /\ TrackIds(tracks) = {1}

\* C3: on return from Track.update the raw fields dRel, yRel, vRel, vLead,
\* aRel and measured equal the call's arguments, whether or not the
\* discontinuity gate tripped (vLead is the point's vRel plus the aligned ego
\* speed v_ego_hist[0]); vLeadK, aLeadK and vLat are the filters' states.
C3_RawFields ==
  cycle > 0 =>
    \A i \in 1..Len(tracks) :
      LET t == tracks[i]
          p == LastPoint(t.identifier)
      IN /\ t.dRel = p.dRel /\ t.yRel = p.yRel /\ t.vRel = p.vRel
         /\ t.aRel = p.aRel /\ t.measured = p.measured
         /\ t.vLead = p.vRel + v_ego_hist.q[1]
         /\ t.vLeadK = t.kf[1] /\ t.aLeadK = t.kf[2] /\ t.vLat = t.kf_y[2]

\* C3 witness: a Track whose second update (within the gate, cnt = 2) moved
\* it from 5.0 m to 8.0 m; its filtered speed differs from the raw one.
C3_Witness ==
  /\ cycle >= 2
  /\ \E i \in 1..Len(tracks) :
       /\ tracks[i].cnt = 2
       /\ tracks[i].dRel = 800
       /\ tracks[i].vLeadK # tracks[i].vLead

\* C10: a Track whose id was absent from the previous cycle's points is a
\* newly created one: cnt, both filters, aLeadTau and the derived values are
\* those of a Track built from this cycle's measurement and tunables alone,
\* and vision_prob is 0.0 or the score against one of this cycle's candidates.
C10_FreshAfterAbsence ==
  cycle > 0 =>
    \A i \in 1..Len(tracks) :
      LET t == tracks[i]
      IN (/\ t.identifier \in hist[cycle]
          /\ cycle = 1 \/ t.identifier \notin hist[cycle - 1]) =>
           /\ t.cnt = 1
           /\ t.kf = <<LastPoint(t.identifier).vRel + v_ego_hist.q[1], 0>>
           /\ t.kf_y = <<LastPoint(t.identifier).yRel, 0>>
           /\ t.vLat = 0 /\ t.aLeadK = 0 /\ t.vLeadK = t.vLead
           /\ t.aLeadTau = IF 0 < tun.aLeadTauStart THEN tun.aLeadTau ELSE 13500
           /\ \/ t.vision_prob = ProbZero
              \/ \E k \in 1..Len(inp.leads) :
                   t.vision_prob = TrackProb(t, v_ego, inp.leads[k])

\* C10 witness: id 1 was present in cycle 1, absent in cycle 2 and is
\* present again in cycle 3.
C10_Witness ==
  /\ cycle = 3
  /\ 1 \in hist[1] /\ 1 \notin hist[2] /\ 1 \in hist[3]
  /\ 1 \in TrackIds(tracks)

Published(k) == IF k = 1 THEN radar_state.leadOne ELSE radar_state.leadTwo

\* the positions of the Tracks that are potential low-speed leads at the
\* ego speed of the cycle
LowNow == {i \in 1..Len(tracks) : potential_low_speed_lead(tracks[i], v_ego)}

C9_OnceACycle == gwrites <= 1

\* C9 amended: each of the three selection calls of a cycle (primary,
\* secondary, side leads) assigns the scalar at most once, so a cycle assigns
\* it at most three times: the primary and the secondary call only when they
\* return a lead, the side-lead call only when the primary candidate is above
\* 0.5 and the path has TRAJECTORY_SIZE points.
C9_OncePerCall ==
  cycle > 0 =>
    /\ gwrites <= 3
    /\ (Len(inp.leads) <= 1) => gwrites = 0
    /\ (Len(inp.leads) > 1) =>
         gwrites <= (IF radar_state.leadOne.status THEN 1 ELSE 0)
                    + (IF radar_state.leadTwo.status THEN 1 ELSE 0)
                    + (IF inp.leads[1].prob > 50 /\ Len(inp.md.x) = 33
                       THEN 1 ELSE 0)

\* C9 witness: no Track, both candidates above 0.5: the primary, the
\* secondary and the side-lead call each decayed the scalar, 1.5 -> 1.0935.
C9_Witness ==
  /\ cycle > 0
  /\ tracks = <<>>
  /\ gwrites = 3
  /\ gtau = 10935

\* C8: KalmanParams(dt) fails for every dt outside the open interval
\* (0.01, 0.2), both endpoints included, and succeeds for every dt strictly
\* inside it; RadarD construction fails with it, so that no update ever runs
\* and no Track ever exists for such a radar_ts.
C8_OpenInterval ==
  /\ phase = "failed" => /\ radar_ts <= 10 \/ radar_ts >= 200
                         /\ tracks = <<>> /\ cycle = 0 /\ kalman_params.A01 = 0
  /\ phase = "running" => /\ 10 < radar_ts /\ radar_ts < 200
                          /\ kalman_params.A01 = radar_ts
  /\ (radar_ts <= 10 \/ radar_ts >= 200) => tracks = <<>> /\ cycle = 0

\* C8 witness: construction failed at the endpoint dt = 0.2
C8_Witness == phase = "failed" /\ radar_ts = 200

----------------------------------------------------------------------------
(* Properties of the association and selection functions (checked under   *)
(* SpecAssoc)                                                              *)

\* the candidate the last call was given
CallLead == inp.leads[call.k]

\* the best-scoring Track after match_vision_to_track wrote the scores: the
\* first Track of maximal vision_prob
BestScoring ==
  CHOOSE i \in 1..Len(tracks) :
    /\ \A j \in 1..Len(tracks) : tracks[j].vision_prob <= tracks[i].vision_prob
    /\ \A j \in 1..(i - 1) : tracks[j].vision_prob < tracks[i].vision_prob

\* C5: match_vision_to_track returns no Track whenever the distance error of
\* the best-scoring Track against the vision distance (x - 1.52) is not below
\* max(0.35 * vision distance, 5.0), also when it is the only Track; the Track
\* it does return is the best-scoring one.
C5_DistanceBackstop ==
  call.fn = "match_vision_to_track" =>
    LET vd == CallLead.x - 152
        err == Abs(tracks[BestScoring].dRel - vd)
    IN /\ ~(err * 100 < Max2(vd * 35, 50000)) => call.track = 0
       /\ call.track # 0 => call.track = BestScoring

\* C5 witness: the only Track is at 30 m, the vision distance is 50 m, speed
\* and lateral position agree with the candidate, and no Track is returned.
C5_Witness ==
  /\ call.fn = "match_vision_to_track"
  /\ Len(tracks) = 1
  /\ tracks[1].dRel = 3000
  /\ CallLead.x - 152 = 5000
  /\ Abs(tracks[1].vRel + v_ego - CallLead.v) < 1000
  /\ Abs((0 - CallLead.y) - tracks[1].yRel) < 160
  /\ call.track = 0

\* the last call was a lead selection on an empty Track map with a candidate
\* above 0.5
EmptyMapVision ==
  /\ call.fn \in {"get_lead", "get_lead_apilot"}
  /\ tracks = <<>>
  /\ CallLead.prob > 50

\* C6 as stated: with an empty Track map and a candidate above 0.5 both
\* selection functions return a vision record (status true, radar false,
\* radarTrackId -1), whether or not a modelV2 update was received before.
C6_VisionOnlyAlways ==
  EmptyMapVision =>
    call.ld.status /\ ~call.ld.radar /\ call.ld.radarTrackId = -1

\* C6 amended: get_lead_apilot returns the vision record in every cycle,
\* get_lead only once a modelV2 update was received (ready); before that
\* get_lead returns no lead.  The record carries the vision kinematics:
\* dRel = x - 1.52, yRel = -y, vRel = v - model_v_ego, vLead = v_ego + vRel,
\* aLeadK = a, modelProb = prob.
C6_VisionOnlyWhenReady ==
  EmptyMapVision =>
    IF call.fn = "get_lead" /\ ~ready
    THEN call.ld = NoLead
    ELSE /\ call.ld.status /\ ~call.ld.radar /\ call.ld.radarTrackId = -1
         /\ call.ld.dRel = CallLead.x - 152
         /\ call.ld.yRel = 0 - CallLead.y
         /\ call.ld.vRel = CallLead.v - (IF Len(inp.trans) > 0 THEN inp.trans[1] ELSE v_ego)
         /\ call.ld.vLead = v_ego + call.ld.vRel
         /\ call.ld.vLeadK = call.ld.vLead
         /\ call.ld.aLeadK = CallLead.a
         /\ call.ld.modelProb = CallLead.prob
         /\ ~call.ld.fcw

\* C6 witness: get_lead after a modelV2 update, no Track, candidate at 0.6
\* and 51.52 m: the vision record at 50 m is returned.
C6_Witness ==
  /\ EmptyMapVision
  /\ call.fn = "get_lead"
  /\ ready
  /\ CallLead.prob = 60
  /\ call.ld.status /\ ~call.ld.radar
  /\ call.ld.dRel = 5000

\* the positions of the Tracks right (side = 1) or left (side = -1) of the
\* center lane of a straight path: d_y = -yRel is outside +-lane_width / 2
\* and within lane_width / 2 + lane_width * 0.8 on that side
SideCands(side) ==
  {i \in 1..Len(tracks) :
     LET d_y == 0 - tracks[i].yRel
     IN /\ Len(inp.md.x) = 33
        /\ ~(Abs(d_y) * 2 < inp.laneWidth)
        /\ 0 < side * d_y
        /\ side * d_y * 10 < inp.laneWidth * 13}

\* ld is the nearest of the side's candidates beyond 5.0 m, or no lead when
\* there is none
SideNearest(side, ld) ==
  LET far == {i \in SideCands(side) : tracks[i].dRel > 500}
  IN IF far = {} THEN ld = NoLead
     ELSE /\ ld.status /\ ld.radar
          /\ \E i \in far :
               /\ ld.radarTrackId = tracks[i].identifier
               /\ ld.dRel = tracks[i].dRel
               /\ \A j \in far : tracks[i].dRel <= tracks[j].dRel

\* C7: get_lead_side reports as leadLeft (leadRight) the candidate of
\* smallest dRel among that side's candidates with dRel > 5.0; a candidate
\* with dRel <= 5.0 is never reported; with no candidate beyond 5.0 the side
\* record is status false.
C7_SideNearestBeyond5 ==
  call.fn = "get_lead_side" =>
    /\ SideNearest(-1, call.side.leadLeft)
    /\ SideNearest(1, call.side.leadRight)

\* C7 witness: straight path, lane width 3.6, Tracks at yRel = -2.5 with
\* dRel = 3, 20: the one at 20 m is leadRight, the one at 3 m is in the right
\* list and not reported.
C7_Witness ==
  /\ call.fn = "get_lead_side"
  /\ inp.laneWidth = 360
  /\ \E i, j \in SideCands(1) :
       /\ tracks[i].dRel = 300 /\ tracks[i].yRel = -250
       /\ tracks[j].dRel = 2000 /\ tracks[j].yRel = -250
       /\ call.side.leadRight.radarTrackId = tracks[j].identifier
  /\ call.side.leadRight.dRel = 2000
  /\ Len(call.side.lr) = 2
  /\ call.side.leadLeft.dRel = 2500

----------------------------------------------------------------------------
(* Properties of a cycle without detections (checked under Spec) and of    *)
(* radard_thread (checked under SpecThread)                                *)

\* C11: an update cycle whose radar input is None or has no points is a
\* cycle of zero detections: it runs to its end (no exception), leaves no
\* Track in the map, whatever the map held before, and so creates and
\* updates none.
C11_ZeroDetections ==
  [][phase = "running" /\ (inp'.rr_none \/ inp'.points = <<>>)
       /\ inp'.paramFail = 0 =>
       /\ tracks' = <<>>
       /\ phase' = "running"
       /\ cycle' = cycle + 1
       /\ hist' = Append(hist, {})
       /\ radar_state' # RadarStateNone]_vars

\* C11 witness: the cycle before tracked id 1, the last cycle had rr = None,
\* and the map is empty.
C11_Witness ==
  /\ cycle >= 2
  /\ hist[cycle - 1] = {1}
  /\ inp.rr_none
  /\ tracks = <<>>
  /\ phase = "running"

\* the message pair of cycle n is in place in sent
PairOf(n) ==
  /\ sent[2 * n - 1].topic = "radarState" /\ sent[2 * n - 1].cycle = n
  /\ sent[2 * n].topic = "liveTracks" /\ sent[2 * n].cycle = n

\* C12: every result of RI.update that is not None gets exactly one
\* RadarD.update and then exactly one publish, radarState before liveTracks,
\* before the next result is read; nothing is published without the update
\* of the same iteration, no cycle is run twice, and a None result gets
\* neither update nor publish.
C12_OnePassPerSample ==
  /\ pc \in {"start", "read", "monitor"} =>
       cycle = reads.some /\ Len(sent) = 2 * cycle
  /\ pc = "update" => cycle + 1 = reads.some /\ Len(sent) = 2 * cycle
  /\ pc = "publish" => cycle = reads.some /\ Len(sent) = 2 * cycle - 2
  /\ pc = "publish_liveTracks" => cycle = reads.some /\ Len(sent) = 2 * cycle - 1
  /\ \A n \in 1..(Len(sent) \div 2) : PairOf(n)
  /\ Len(sent) % 2 = 1 => sent[Len(sent)].topic = "radarState"
                          /\ sent[Len(sent)].cycle = cycle

\* C12 witness: two results were None, two were not, and the two cycles
\* were published in order.
C12_Witness ==
  /\ pc = "read"
  /\ reads = [some |-> 2, none |-> 2]
  /\ cycle = 2
  /\ Len(sent) = 4

\* C13: the valid flag of both messages of a cycle is true exactly when
\* sm.all_checks() held and the sample carried no radar error in that cycle,
\* whatever the Track map, the leads and the earlier cycles were.
C13_ValidFlag ==
  [][Len(sent') > Len(sent) =>
       sent'[Len(sent')].valid = (inp.all_checks /\ inp.errors = 0)]_vars

\* C13 witness: the sample carried an error, all checks passed, a Track is in
\* the map, and both messages of the cycle went out with valid = false after
\* a cycle that went out with valid = true.
C13_Witness ==
  /\ pc = "monitor"
  /\ cycle = 2
  /\ inp.errors = 1 /\ inp.all_checks
  /\ Len(tracks) = 1
  /\ sent[1].valid /\ sent[2].valid
  /\ ~sent[3].valid /\ ~sent[4].valid

\* C14: a failing read of a live tunable makes RadarD.update raise: no
\* default takes the value's place, the cycle does not go on, nothing is
\* published for it, and tracks, ready, v_ego_hist and the global decay
\* scalar are as before the cycle.
C14_ParamFailurePropagates ==
  [][pc = "update" =>
       IF inp'.paramFail # 0
       THEN /\ phase' = "raised" /\ pc' = "dead"
            /\ UNCHANGED <<tracks, ready, v_ego_hist, gtau, hist, cycle, sent>>
       ELSE phase' = "running" /\ cycle' = cycle + 1]_vars

\* C14 witness: the second read failed in a cycle that found a Track in the
\* map; the Track is still there and the thread is gone.
C14_Witness ==
  /\ phase = "raised"
  /\ pc = "dead"
  /\ inp.paramFail = 2
  /\ tun.mixRadarInfo = 2 /\ tun.aLeadTau = 15000
  /\ Len(tracks) = 1
  /\ cycle = 1

----------------------------------------------------------------------------
(* Properties of Track creation and of the filters (checked under Spec)    *)

\* the ids tracked by the cycle before the last one
PrevIds == IF cycle >= 2 THEN hist[cycle - 1] ELSE {}

\* C15 as stated: a Track created by the last cycle has not been updated:
\* its cnt is 0 at the end of that cycle.
C15_CreatedNotUpdated ==
  cycle > 0 =>
    \A i \in 1..Len(tracks) :
      tracks[i].identifier \notin PrevIds => tracks[i].cnt = 0

\* C15 amended: the cycle in which an id first appears creates the Track and
\* calls its update: at the end of that cycle cnt is 1 and the raw fields
\* hold the id's measurement; no Track of the map ever has cnt = 0.
C15_CreatedAndUpdated ==
  cycle > 0 =>
    \A i \in 1..Len(tracks) :
      /\ tracks[i].cnt >= 1
      /\ (tracks[i].identifier \notin PrevIds /\ tracks[i].identifier \in hist[cycle]) =>
           /\ tracks[i].cnt = 1
           /\ tracks[i].dRel = LastPoint(tracks[i].identifier).dRel
           /\ tracks[i].vRel = LastPoint(tracks[i].identifier).vRel
           /\ tracks[i].measured

\* C15 witness: the first cycle saw id 1 at 5 m; its Track has cnt = 1 and
\* dRel = 5 m.
C15_Witness ==
  /\ cycle = 1
  /\ Len(tracks) = 1
  /\ tracks[1].identifier = 1
  /\ tracks[1].cnt = 1
  /\ tracks[1].dRel = 500

\* C16: Track.update corrects the speed filter with vLead and the lateral
\* filter with yRel exactly when cnt > 0 after the discontinuity check.  On
\* the first update of a Track and on an update that trips the gate nothing
\* is corrected: vLeadK = vLead, aLeadK = 0, vLat = 0 and cnt = 1 on return;
\* on every other update cnt grows by one and vLeadK, aLeadK, vLat are the
\* states of the corrected filters.
C16_CorrectionWhenCounted ==
  [][hist' # hist =>
       \A j \in 1..Len(tracks') :
         LET n == tracks'[j]
             olds == {i \in 1..Len(tracks) : tracks[i].identifier = n.identifier}
         IN IF olds = {} \/ \E i \in olds :
                              \/ Abs(tracks[i].dRel - n.dRel) > 300
                              \/ Abs(tracks[i].vRel - n.vRel) > 2 * radar_ts
            THEN n.vLeadK = n.vLead /\ n.aLeadK = 0 /\ n.vLat = 0 /\ n.cnt = 1
            ELSE \A i \in olds :
                   /\ n.cnt = tracks[i].cnt + 1
                   /\ n.vLeadK = KF1D_update(tracks[i].kf, kalman_params, n.vLead)[1]
                   /\ n.aLeadK = KF1D_update(tracks[i].kf, kalman_params, n.vLead)[2]
                   /\ n.vLat = KF1D_update(tracks[i].kf_y, kalman_params, n.yRel)[2]]_vars

\* C16 witness: a Track in its third cycle, measured 1 m/s faster in the
\* second and 0.10 m further left in the third, within the gate both times:
\* cnt = 3 and both filters moved off the raw values.
C16_Witness ==
  /\ cycle = 3
  /\ \E i \in 1..Len(tracks) :
       /\ tracks[i].cnt = 3
       /\ tracks[i].vLeadK # tracks[i].vLead
       /\ tracks[i].aLeadK # 0
       /\ tracks[i].vLat # 0

----------------------------------------------------------------------------
(* Properties of aLeadTau over repeated updates (checked under SpecTrack)  *)

----------------------------------------------------------------------------
(* More properties of the association and selection functions (checked     *)
(* under SpecAssoc)                                                        *)

\* the three gates of match_vision_to_track on the Track at position i
\* against the candidate of the last call
PassesGates(i) ==
  LET t == tracks[i]
      vd == CallLead.x - 152
  IN /\ Abs(t.dRel - vd) * 100 < Max2(vd * 35, 50000)
     /\ \/ Abs(t.vRel + v_ego - CallLead.v) < (IF CallLead.prob > 85 THEN 2000 ELSE 1000)
        \/ t.vRel + v_ego > 300
     /\ Abs((0 - CallLead.y) - t.yRel) < 160

\* C18: match_vision_to_track returns the Track of maximum score if that
\* Track passes the distance gate, the velocity gate and the lateral gate,
\* and none otherwise, also when another Track would pass all three.
C18_BestOrNone ==
  call.fn = "match_vision_to_track" =>
    /\ \A j \in 1..Len(tracks) :
         tracks[j].vision_prob <= tracks[BestScoring].vision_prob
    /\ call.track = IF PassesGates(BestScoring) THEN BestScoring ELSE 0

\* C18 witness: the Track of maximum score is slow (3 m/s against a
\* candidate at 13 m/s) and fails the velocity gate, the other Track passes
\* all three gates, and none is returned.
C18_Witness ==
  /\ call.fn = "match_vision_to_track"
  /\ Len(tracks) = 2
  /\ BestScoring = 1
  /\ ~PassesGates(1)
  /\ PassesGates(2)
  /\ tracks[2].vision_prob < tracks[1].vision_prob
  /\ call.track = 0

\* the closest potential low-speed lead: the first Track of minimal dRel
ClosestLowNow ==
  CHOOSE i \in LowNow :
    /\ \A j \in LowNow : tracks[i].dRel <= tracks[j].dRel
    /\ \A j \in LowNow : j < i => tracks[i].dRel < tracks[j].dRel

\* what get_lead returns for the arguments of the last call with the
\* override off
RecordOfCall ==
  get_lead(v_ego, ready, tracks, CallLead, ModelVEgo(inp, v_ego), FALSE, call.g0).ld

\* C19: get_lead with the override on: if some Track is a potential
\* low-speed lead, the projection of the closest one replaces the record
\* exactly when the record has status false or the Track's dRel is strictly
\* smaller than the record's; the result then has status true and a dRel no
\* greater than that of any such Track.  With no such Track the record is
\* returned as it is.
C19_LowSpeedOverride ==
  (call.fn = "get_lead" /\ call.lso) =>
    IF LowNow = {} THEN call.ld = RecordOfCall
    ELSE /\ call.ld.status
         /\ \A i \in LowNow : call.ld.dRel <= tracks[i].dRel
         /\ IF ~RecordOfCall.status \/ tracks[ClosestLowNow].dRel < RecordOfCall.dRel
            THEN /\ call.ld.radar
                 /\ call.ld.radarTrackId = tracks[ClosestLowNow].identifier
                 /\ call.ld.dRel = tracks[ClosestLowNow].dRel
                 /\ call.ld.modelProb = CallLead.prob
            ELSE call.ld = RecordOfCall

\* C19 witness: ego at 2 m/s, a Track at 5 m, 0.20 m off axis, and a vision
\* record at 50 m: the Track's projection is returned.
C19_Witness ==
  /\ call.fn = "get_lead" /\ call.lso
  /\ v_ego = 200
  /\ LowNow = {1}
  /\ tracks[1].dRel = 500 /\ tracks[1].yRel = 20
  /\ RecordOfCall.status /\ ~RecordOfCall.radar /\ RecordOfCall.dRel = 5000
  /\ call.ld.radar /\ call.ld.radarTrackId = 1 /\ call.ld.dRel = 500

----------------------------------------------------------------------------
(* The range of the global decay scalar (checked under SpecDecay)          *)

\* C20: global_vision_aLeadTau stays within [0.3, 1.5]: no vision record
\* takes it below 0.3 and nothing raises it above 1.5.
C20_WithinRange == 3000 <= gtau /\ gtau <= 15000

----------------------------------------------------------------------------
(* The value a vision-only record carries (checked under SpecDecay)        *)

\* the last call returned a vision-only record
VisionOnly(c) == c.ld.status /\ ~c.ld.radar

\* C21 as stated: a vision-only record carries as aLeadTau the value the
\* global scalar had before the call that built it.
C21_CarriesValueBefore ==
  [][(cycle' = cycle + 1 /\ VisionOnly(call')) => call'.ld.aLeadTau = gtau]_vars

\* C21 amended: the call decays the global scalar first (times 0.9 if it is
\* above 0.3) and the vision-only record carries the value after that decay;
\* the first vision-only record after a call that projected a radar Track
\* carries 0.9 * 1.5 = 1.35.
C21_CarriesValueAfter ==
  [][(cycle' = cycle + 1 /\ VisionOnly(call')) =>
       /\ gtau' = (IF gtau > 3000 THEN (gtau * 9) \div 10 ELSE gtau)
       /\ call'.ld.aLeadTau = gtau'
       /\ (call.ld.status /\ call.ld.radar) =>
            (gtau = LEAD_ACCEL_TAU /\ call'.ld.aLeadTau = 13500)]_vars

\* C21 witness: get_lead found no Track for the candidate at 60 m while the
\* global scalar stood at 1.5, and returned a vision-only record with
\* aLeadTau 1.35.
C21_Witness ==
  /\ call.fn = "get_lead"
  /\ cycle >= 2
  /\ VisionOnly(call)
  /\ call.ld.dRel = 6000
  /\ call.g0 = LEAD_ACCEL_TAU
  /\ call.ld.aLeadTau = 13500
  /\ gtau = 13500

----------------------------------------------------------------------------
(* The Track a selection call ends with (checked under SpecAssoc)          *)

\* the Track the last get_lead or get_lead_apilot call held at line 276 /
\* 437, before the low-speed override: its position, or 0 for None
FinalTrack ==
  IF call.fn = "get_lead"
  THEN LeadTrack(CallLead, tracks,
                 IF Len(tracks) > 0 /\ ready /\ CallLead.prob > 50
                 THEN match_vision_to_track(v_ego, CallLead, tracks).track ELSE 0,
                 TrackScc(tracks))
  ELSE IF Len(tracks) > 0 /\ ready
  THEN match_vision_track_apilot(v_ego, CallLead, tracks, inp.md, inp.laneWidth)
  ELSE 0

\* the last call's low-speed override replaced the record
Overridden ==
  /\ call.lso /\ LowNow # {}
  /\ FinalTrack # 0 => tracks[ClosestLowNow].dRel < tracks[FinalTrack].dRel

\* C22: a get_lead or get_lead_apilot call, for either candidate, that ends
\* with a Track sets the global scalar to 1.5 and, unless the low-speed
\* override replaces the record, returns that Track's projection (status,
\* radar, radarTrackId the Track's identifier); a call that ends with no
\* Track leaves the scalar no greater than it was.
C22_TrackProjectedAndReset ==
  call.fn \in {"get_lead", "get_lead_apilot"} =>
    IF FinalTrack # 0
    THEN /\ gtau = LEAD_ACCEL_TAU
         /\ call.ld.status /\ call.ld.radar
         /\ ~Overridden =>
              /\ call.ld.radarTrackId = tracks[FinalTrack].identifier
              /\ call.ld.dRel = tracks[FinalTrack].dRel
              /\ call.ld.vRel = tracks[FinalTrack].vRel
              /\ call.ld.aLeadTau = tracks[FinalTrack].aLeadTau
    ELSE gtau <= call.g0

\* C22 witness: get_lead for the secondary candidate ended with Track 1 while
\* the global scalar stood below 0.3, returned its projection and left the
\* scalar at 1.5.
C22_Witness ==
  /\ call.fn = "get_lead" /\ call.k = 2 /\ ~call.lso
  /\ call.g0 < 3000
  /\ FinalTrack # 0
  /\ call.ld.radar /\ call.ld.radarTrackId = tracks[FinalTrack].identifier
  /\ gtau = LEAD_ACCEL_TAU

----------------------------------------------------------------------------
(* The corridor strategy (checked under SpecAssoc)                         *)

\* the last call was match_vision_track_apilot on a non-empty map with a
\* full planned path
CorridorCall ==
  /\ call.fn = "match_vision_track_apilot"
  /\ Len(tracks) > 0
  /\ Len(inp.md.x) = TRAJECTORY_SIZE

\* the lateral deviation of Track c from the planned path at dRel + vLat
CorridorDy(c) == (0 - c.yRel) - interp(c.dRel + c.vLat, inp.md.x, inp.md.y)

\* the positions of the Tracks of the center bucket
CorridorCenter ==
  { i \in 1..Len(tracks) :
      Abs(CorridorDy(tracks[i])) * 2 <
        interp(tracks[i].dRel, <<0, 1000, 10000>>,
               <<150, inp.laneWidth, (inp.laneWidth * 6) \div 10>>) }

\* the distance gate against the candidate of the last call
CorridorDistOk(i) ==
  Abs(tracks[i].dRel - (CallLead.x - 152)) * 100 < Max2((CallLead.x - 152) * 35, 50000)

\* center Tracks within the distance gate and 10 m/s of the candidate
CorridorMatch1 ==
  { i \in CorridorCenter :
      CorridorDistOk(i) /\ Abs(tracks[i].vRel + v_ego - CallLead.v) < 1000 }

\* center Tracks within the distance gate and not receding faster than
\* 0.5 m/s over ground
CorridorMatch2 ==
  { i \in CorridorCenter : CorridorDistOk(i) /\ tracks[i].vRel + v_ego > -50 }

\* center Tracks moving faster than 3 m/s over ground
CorridorFast == { i \in CorridorCenter : tracks[i].vRel + v_ego > 300 }

\* C23: with vision confidence above 0.5 and no corridor Track chosen, the
\* sentinel Track (identifier 0) is returned, unless the vision distance is
\* smaller than the sentinel's dRel minus 5 m, and exactly then none is
\* returned.
C23_SentinelUnlessVisionCloser ==
  (/\ CorridorCall /\ CallLead.prob > 50
   /\ CorridorMatch1 = {} /\ CorridorMatch2 = {}
   /\ TrackScc(tracks) # 0) =>
    call.track = IF CallLead.x - 152 < tracks[TrackScc(tracks)].dRel - 500
                 THEN 0 ELSE TrackScc(tracks)

\* i is a Track of the set ks with the least dRel, the first of them in the
\* order of the map
NearestIn(i, ks) ==
  /\ i \in ks
  /\ \A j \in ks : tracks[i].dRel <= tracks[j].dRel
  /\ \A j \in ks : j < i => tracks[i].dRel < tracks[j].dRel

\* C24: with vision confidence above 0.5, if some center Track passes the
\* distance gate with a velocity error below 10 m/s the nearest of those is
\* returned; otherwise, if some center Track passes the distance gate with
\* vRel + ego speed above -0.5 m/s, the one of greatest vRel among those is
\* returned; a Track outside the center bucket is returned only as the
\* sentinel.
C24_CorridorWithVision ==
  (CorridorCall /\ CallLead.prob > 50) =>
    /\ CorridorMatch1 # {} => NearestIn(call.track, CorridorMatch1)
    /\ (CorridorMatch1 = {} /\ CorridorMatch2 # {}) =>
         /\ call.track \in CorridorMatch2
         /\ \A j \in CorridorMatch2 : tracks[j].vRel <= tracks[call.track].vRel
    /\ (call.track # 0 /\ call.track \notin CorridorCenter) =>
         tracks[call.track].identifier = 0

\* C24 witness: two center Tracks at 52 m and 48 m both match the candidate
\* at 50 m in distance and speed, and the second, nearer one is returned.
C24_Witness ==
  /\ CorridorCall /\ CallLead.prob > 50
  /\ CorridorMatch1 = {1, 2}
  /\ tracks[1].dRel = 5200 /\ tracks[2].dRel = 4800
  /\ call.track = 2

\* C25: with vision confidence of 0.5 or less the result is the nearest center
\* Track with vRel + ego speed above 3 m/s, whatever its distance or speed
\* against the candidate; without such a Track it is the sentinel if the map
\* has one and none otherwise.
C25_CorridorWithoutVision ==
  (CorridorCall /\ CallLead.prob <= 50) =>
    IF CorridorFast # {} THEN NearestIn(call.track, CorridorFast)
    ELSE call.track = TrackScc(tracks)

\* C25 witness: the candidate at 50 m has confidence 0.2, the only fast center
\* Track is at 5 m, outside the distance gate, 13 m/s faster than the
\* candidate, and it is returned.
C25_Witness ==
  /\ CorridorCall /\ CallLead.prob = 20 /\ CallLead.x = 5152
  /\ call.track # 0 /\ call.track \in CorridorFast
  /\ tracks[call.track].dRel = 500
  /\ ~CorridorDistOk(call.track)
  /\ Abs(tracks[call.track].vRel + v_ego - CallLead.v) >= 1000

----------------------------------------------------------------------------
(* The lanes of get_lead_side (checked under SpecAssoc)                    *)

\* the last call was get_lead_side with a full planned path
SideLanesCall == call.fn = "get_lead_side" /\ Len(inp.md.x) = TRAJECTORY_SIZE

\* the lateral deviation of the Track at position i from the planned path
SideDy(i) == (0 - tracks[i].yRel) - interp(tracks[i].dRel, inp.md.x, inp.md.y)

\* the Track at position i has an entry in the list
InSideList(list, i) ==
  \E k \in 1..Len(list) :
    list[k].radar /\ list[k].radarTrackId = tracks[i].identifier

\* a later Track of the same lane and the same dRel took the entry of the
\* Track at position i (the lists are keyed by dRel)
SideShadowed(i, side) ==
  \E j \in (i + 1)..Len(tracks) :
    /\ tracks[j].dRel = tracks[i].dRel
    /\ ~(Abs(SideDy(j)) * 2 < inp.laneWidth)
    /\ 0 < side * SideDy(j)
    /\ side * SideDy(j) * 10 < inp.laneWidth * 13

\* C26 as stated: a Track is in the left (right) list exactly when its
\* deviation is strictly between half a lane width and 1.8 lane widths on the
\* negative (positive) side.
C26_SideBetweenHalfAnd18 ==
  SideLanesCall =>
    \A i \in 1..Len(tracks) :
      /\ InSideList(call.side.ll, i) <=>
           (0 - inp.laneWidth * 18 < SideDy(i) * 10 /\ SideDy(i) * 2 < 0 - inp.laneWidth)
      /\ InSideList(call.side.lr, i) <=>
           (inp.laneWidth < SideDy(i) * 2 /\ SideDy(i) * 10 < inp.laneWidth * 18)

\* C26 amended: a Track is in the left (right) list exactly when its
\* deviation d is not below half a lane width in magnitude and -1.3 lane
\* widths < d < 0 (0 < d < 1.3 lane widths), and no later Track of that lane
\* has the same dRel; a Track with |d| below half a lane width is in neither
\* side list and is the only kind of Track the center list can hold; a Track
\* at 1.3 lane widths or beyond is in no list.
C26_SideBetweenHalfAnd13 ==
  SideLanesCall =>
    \A i \in 1..Len(tracks) :
      /\ InSideList(call.side.ll, i) <=>
           /\ ~(Abs(SideDy(i)) * 2 < inp.laneWidth)
           /\ 0 - inp.laneWidth * 13 < SideDy(i) * 10 /\ SideDy(i) < 0
           /\ ~SideShadowed(i, -1)
      /\ InSideList(call.side.lr, i) <=>
           /\ ~(Abs(SideDy(i)) * 2 < inp.laneWidth)
           /\ 0 < SideDy(i) /\ SideDy(i) * 10 < inp.laneWidth * 13
           /\ ~SideShadowed(i, 1)
      /\ InSideList(call.side.lc, i) => Abs(SideDy(i)) * 2 < inp.laneWidth
      /\ Abs(SideDy(i)) * 10 >= inp.laneWidth * 13 =>
           /\ ~InSideList(call.side.ll, i)
           /\ ~InSideList(call.side.lc, i)
           /\ ~InSideList(call.side.lr, i)

\* C26 witness: lane width 3.6 m, straight path: the Track 5.0 m to the right
\* (1.39 lane widths) is in no list, the Track 1.8 m to the right (half a
\* lane width) is in the right list.
C26_Witness ==
  /\ SideLanesCall /\ inp.laneWidth = 360
  /\ Len(tracks) = 2
  /\ SideDy(1) = 500 /\ SideDy(2) = 180
  /\ ~InSideList(call.side.ll, 1) /\ ~InSideList(call.side.lc, 1)
  /\ ~InSideList(call.side.lr, 1)
  /\ InSideList(call.side.lr, 2)

----------------------------------------------------------------------------
(* The low-speed predicate, seen through get_lead (checked under SpecAssoc) *)

\* |yRel| < 1.0, ego speed < 4 m/s and 0.75 m < dRel < 25 m for the Track t
LowSpeedBounds(t, vEgo) ==
  /\ Abs(t.yRel) < 100
  /\ vEgo < 400
  /\ 75 < t.dRel /\ t.dRel < 2500

\* C27: potential_low_speed_lead is true exactly when |yRel| < 1.0, v_ego < 4
\* and 0.75 < dRel < 25, all strict, and evaluating it changes no Track: a
\* get_lead call with the override on, before the first model update and on
\* a map without sentinel, returns a record exactly when some Track is within
\* these bounds, the record of such a Track, and leaves the Tracks as they
\* were.
C27_LowSpeedPredicate ==
  [][(/\ cycle' = cycle + 1
      /\ call'.fn = "get_lead" /\ call'.lso
      /\ ~ready /\ TrackScc(tracks) = 0) =>
       /\ tracks' = tracks
       /\ call'.ld.status <=>
            \E i \in 1..Len(tracks) : LowSpeedBounds(tracks[i], v_ego)
       /\ call'.ld.status =>
            \E i \in 1..Len(tracks) :
              /\ LowSpeedBounds(tracks[i], v_ego)
              /\ call'.ld.radarTrackId = tracks[i].identifier
              /\ call'.ld.dRel = tracks[i].dRel]_vars

\* C27 witness: ego at 2 m/s, Tracks at exactly 0.75 m, at exactly 25 m and
\* exactly 1.0 m off axis: none qualifies and get_lead with the override on
\* returns no record.
C27_Witness ==
  /\ call.fn = "get_lead" /\ call.lso /\ ~ready
  /\ v_ego = 200
  /\ Len(tracks) = 3
  /\ tracks[1].dRel = 75 /\ tracks[2].dRel = 2500 /\ tracks[3].yRel = 100
  /\ ~call.ld.status

----------------------------------------------------------------------------
(* The selections of a cycle and their order (checked under SpecSel)       *)

\* the selection for candidate k under the selector the cycle read, from the
\* global scalar g
StrategyLead(in, vEgo, rdy, trks, k, g) ==
  IF in.MixRadarInfo = 2
  THEN get_lead_apilot(vEgo, rdy, trks, in.leads[k], ModelVEgo(in, vEgo),
                       in.md, in.laneWidth, g)
  ELSE get_lead(vEgo, rdy, trks, in.leads[k], ModelVEgo(in, vEgo), FALSE, g)

\* the side fields of rs and the global scalar after the cycle are those of
\* the one side selection
CycleSide(rs, gAfter, side) ==
  /\ rs.leadLeft = side.leadLeft /\ rs.leadRight = side.leadRight
  /\ rs.leadsLeft = side.ll /\ rs.leadsCenter = side.lc /\ rs.leadsRight = side.lr
  /\ gAfter = side.g

\* leadTwo is the secondary selection, and the side selection starts from the
\* global scalar it left
CycleTwo(in, vEgo, trks, rs, gAfter, two) ==
  /\ rs.leadTwo = two.ld
  /\ CycleSide(rs, gAfter,
               get_lead_side(vEgo, trks, in.md, in.leads, in.laneWidth,
                             ModelVEgo(in, vEgo), two.g))

\* leadOne is the primary selection, and the secondary selection starts from
\* the global scalar it left
CycleOne(in, vEgo, rdy, trks, rs, gAfter, one) ==
  /\ rs.leadOne = one.ld
  /\ CycleTwo(in, vEgo, trks, rs, gAfter,
              StrategyLead(in, vEgo, rdy, trks, 2, one.g))

\* C28: in every cycle with two vision candidates leadOne and leadTwo are
\* the selections for the primary and the secondary candidate under the one
\* strategy the selector read in this cycle names (corridor for 2,
\* probabilistic otherwise); the primary runs first, the secondary second and
\* the side selection once, after both, each starting from the global scalar
\* the one before left.
C28_OneStrategyInOrder ==
  [][(cycle' = cycle + 1 /\ Len(inp'.leads) > 1) =>
       CycleOne(inp', v_ego', ready', tracks', radar_state', gtau',
                StrategyLead(inp', v_ego', ready', tracks', 1, gtau))]_vars

\* C28 witness: the first cycle reads the selector 2 (it was 0 since
\* construction): the secondary candidate, of confidence 0.2, gets the
\* projection of the center Track, which the probabilistic strategy would
\* not give.
C28_Witness ==
  /\ cycle = 1
  /\ inp.MixRadarInfo = 2 /\ Len(inp.leads) > 1
  /\ inp.leads[2].prob <= 50
  /\ radar_state.leadTwo.status /\ radar_state.leadTwo.radar
  /\ ~get_lead(v_ego, ready, tracks, inp.leads[2], ModelVEgo(inp, v_ego), FALSE,
               LEAD_ACCEL_TAU).ld.status

----------------------------------------------------------------------------
(* The liveTracks message (checked under SpecPub)                          *)

\* the liveTracks list of the message sent last
LastLiveTracks == sent[Len(sent)].liveTracks

\* C29: the liveTracks message of a publish has exactly one entry per Track
\* of the map, that is one per id of the cycle's radar points, in ascending
\* trackId order, each with the raw dRel, yRel, vRel and aRel of the id's
\* point and the Track's vLat.
C29_LiveTracksList ==
  pc = "monitor" =>
    /\ sent[Len(sent)].topic = "liveTracks"
    /\ Len(LastLiveTracks) = Len(tracks)
    /\ {LastLiveTracks[k].trackId : k \in 1..Len(LastLiveTracks)} =
         {CyclePts[i].trackId : i \in 1..Len(CyclePts)}
    /\ \A k \in 1..(Len(LastLiveTracks) - 1) :
         LastLiveTracks[k].trackId < LastLiveTracks[k + 1].trackId
    /\ \A k \in 1..Len(LastLiveTracks) :
         /\ LastLiveTracks[k].dRel = LastPoint(LastLiveTracks[k].trackId).dRel
         /\ LastLiveTracks[k].yRel = LastPoint(LastLiveTracks[k].trackId).yRel
         /\ LastLiveTracks[k].vRel = LastPoint(LastLiveTracks[k].trackId).vRel
         /\ LastLiveTracks[k].aRel = LastPoint(LastLiveTracks[k].trackId).aRel
         /\ \E i \in 1..Len(tracks) :
              /\ tracks[i].identifier = LastLiveTracks[k].trackId
              /\ tracks[i].vLat = LastLiveTracks[k].vLat

\* C29 witness: the map holds id 2 before id 1, Track 2 has drifted sideways
\* since the cycle before, and the message lists id 1 before id 2, the
\* latter with a vLat other than 0.
C29_Witness ==
  /\ pc = "monitor"
  /\ Len(tracks) = 2
  /\ tracks[1].identifier = 2 /\ tracks[2].identifier = 1
  /\ Len(LastLiveTracks) = 2
  /\ LastLiveTracks[1].trackId = 1
  /\ LastLiveTracks[2].trackId = 2 /\ LastLiveTracks[2].vLat # 0

----------------------------------------------------------------------------
(* The delayed ego speed (checked under SpecEgo)                           *)

\* the ego speed of carState update k - d, after k updates that raised it by
\* 1 m/s each, or the initial 0.0 while k <= d
DelayedEgo(vEgo, d) == IF vEgo \div 100 > d THEN vEgo - 100 * d ELSE 0

\* C30: the vLead given to every Track of a cycle is the point's vRel plus
\* the ego speed of d carState updates ago (d the radar delay), 0.0 while
\* there were no more than d updates; the history changes exactly in the
\* cycles in which carState updated; the selection runs on the current ego
\* speed.
C30_DelayedEgoSpeed ==
  [][cycle' = cycle + 1 =>
       /\ \A i \in 1..Len(tracks') :
            tracks'[i].vLead =
              tracks'[i].vRel + DelayedEgo(v_ego', v_ego_hist.maxlen - 1)
       /\ (v_ego_hist' # v_ego_hist) <=> inp'.carState_updated
       /\ v_ego' = (IF inp'.carState_updated THEN inp'.vEgo ELSE v_ego)
       /\ CycleOne(inp', v_ego', ready', tracks', radar_state', gtau',
                   StrategyLead(inp', v_ego', ready', tracks', 1, gtau))]_vars

\* C30 witness: delay 1, the second carState update has just arrived: the
\* Track's vLead is its vRel of 1 m/s plus the 1 m/s of the first update, while the
\* primary selection, run on the current 2 m/s, matched the Track.
C30_Witness ==
  /\ v_ego_hist.maxlen = 2
  /\ v_ego = 200
  /\ inp.carState_updated
  /\ v_ego_hist.q = <<100, 200>>
  /\ Len(tracks) = 1
  /\ tracks[1].vRel = 100 /\ tracks[1].vLead = 200
  /\ radar_state.leadOne.radar /\ radar_state.leadOne.radarTrackId = 1

----------------------------------------------------------------------------
(* C31: the ready flag and what get_lead does before it                    *)

\* the Track map of the cycle just run, as the radar points alone leave it
RefreshedNow ==
  RefreshTracks(tracks, ArPts(IF inp'.rr_none THEN <<>> ELSE inp'.points,
                              IF inp'.rr_none THEN 0 ELSE Len(inp'.points)),
                v_ego_hist'.q[1], tun', kalman_params, radar_ts)

\* the record is empty or the projection of the sentinel Track 0
NoneOrSentinel(ld) == ld = NoLead \/ (ld.status /\ ld.radar /\ ld.radarTrackId = 0)

\* C31: ready is false at construction and becomes true in the first cycle
\* whose modelV2 message updated, for good.  Under the probabilistic strategy
\* no Track is scored in a cycle that ends with ready false or in which no
\* candidate has a confidence above 0.5, and in a cycle that ends with ready
\* false leadOne and leadTwo are empty or the projection of Track 0
C31_ReadyGatesVision ==
  /\ [](cycle = 0 => ~ready)
  /\ [][cycle' = cycle + 1 =>
          /\ ready' = (ready \/ inp'.modelV2_updated)
          /\ (tun'.mixRadarInfo # 2 /\ Len(inp'.leads) > 1) =>
               /\ (~ready' \/ \A k \in 1..2 : inp'.leads[k].prob <= 50) =>
                    tracks' = RefreshedNow
               /\ ~ready' => /\ NoneOrSentinel(radar_state'.leadOne)
                             /\ NoneOrSentinel(radar_state'.leadTwo)]_vars

\* reached: before ready, with Track 0 at 30 m and Track 1 at 6 m, the
\* candidate on Track 1 (confidence 0.95, closer than Track 0 by more than
\* 5 m) gives no lead and the candidate of confidence 0.2 gives Track 0
C31_Witness ==
  /\ cycle > 0 /\ ~ready
  /\ Len(tracks) = 2
  /\ Len(inp.leads) = 2 /\ inp.leads[1].prob = 95
  /\ radar_state.leadOne = NoLead
  /\ radar_state.leadTwo.status /\ radar_state.leadTwo.radarTrackId = 0

----------------------------------------------------------------------------
(* C32: the sentinel Track 0 as the fallback of get_lead (SpecAssoc)       *)

\* what association gave the last get_lead call: a position, 0 when it was
\* not run or returned None
AssocOfCall ==
  IF Len(tracks) > 0 /\ ready /\ CallLead.prob > 50
  THEN match_vision_to_track(v_ego, CallLead, tracks).track
  ELSE 0

\* vision is confident and sees its lead more than 5 m nearer than Track 0
VisionNearerThanScc ==
  /\ CallLead.prob > 50
  /\ CallLead.x - RADAR_TO_CAMERA < tracks[TrackScc(tracks)].dRel - 500

\* C32: a get_lead call in which association gave no Track while Track 0
\* exists returns, when the low-speed override does not act, the projection
\* of Track 0, unless vision is confident and more than 5 m nearer than
\* Track 0: then no Track is used and the record is the vision-only one when
\* ready is set and empty otherwise
C32_SentinelFallback ==
  (/\ call.fn = "get_lead"
   /\ ~call.lso \/ LowNow = {}
   /\ AssocOfCall = 0
   /\ TrackScc(tracks) # 0) =>
    IF VisionNearerThanScc
    THEN /\ ~call.ld.radar
         /\ call.ld.status = ready
         /\ ready => call.ld.dRel = CallLead.x - RADAR_TO_CAMERA
    ELSE /\ call.ld.status /\ call.ld.radar
         /\ call.ld.radarTrackId = 0
         /\ call.ld.dRel = tracks[TrackScc(tracks)].dRel

\* reached: with Track 0 alone at 30 m and vision confident of a lead at 5 m,
\* association gives nothing, Track 0 is passed over and the record is the
\* vision-only one
C32_Witness ==
  /\ call.fn = "get_lead" /\ ready
  /\ AssocOfCall = 0
  /\ TrackScc(tracks) # 0
  /\ VisionNearerThanScc
  /\ call.ld.status /\ ~call.ld.radar
  /\ call.ld.dRel = 500

----------------------------------------------------------------------------
(* C33: a cycle with fewer than two lead candidates (SpecReady)            *)

\* C33: a cycle whose modelV2 message has fewer than two lead candidates
\* publishes leadOne, leadTwo, leadLeft and leadRight at their defaults and
\* empty side lists, neither assigns nor changes the decay scalar, and
\* leaves the Track map as the refresh from the radar points made it
C33_NoSelectionBelowTwo ==
  [][(cycle' = cycle + 1 /\ Len(inp'.leads) < 2) =>
       /\ radar_state' = NewRadarState
       /\ ~radar_state'.leadOne.status /\ ~radar_state'.leadTwo.status
       /\ ~radar_state'.leadLeft.status /\ ~radar_state'.leadRight.status
       /\ gtau' = gtau /\ gwrites' = 0
       /\ tracks' = RefreshedNow
       /\ TrackIds(tracks') = (IF inp'.rr_none THEN {} ELSE PointIds(inp'.points))]_vars

\* reached: a cycle with one confident candidate on Track 1, after ready was
\* set and the scalar had decayed, published no lead and kept the scalar
C33_Witness ==
  /\ cycle > 1 /\ ready
  /\ Len(inp.leads) = 1 /\ inp.leads[1].prob = 95
  /\ Len(tracks) = 2
  /\ gtau < LEAD_ACCEL_TAU
  /\ radar_state = NewRadarState

----------------------------------------------------------------------------
(* C34: what the selection functions write to the Tracks (SpecAssoc)       *)

\* a Track without its association score
Unscored(t) == [t EXCEPT !.vision_prob = ProbZero]

\* the call just made ran match_vision_to_track for its candidate
ScoredCall ==
  \/ call'.fn = "match_vision_to_track"
  \/ /\ call'.fn = "get_lead"
     /\ Len(tracks) > 0 /\ ready /\ inp.leads[call'.k].prob > 50

\* C34: a call of match_vision_to_track, match_vision_track_apilot, get_lead,
\* get_lead_apilot or get_lead_side leaves the Track map with the same Tracks
\* in the same order and every field of every Track but vision_prob as it
\* was; vision_prob changes only in a call that runs match_vision_to_track,
\* and such a call writes the candidate's score to every Track
C34_SelectionWritesScoreOnly ==
  [][cycle' = cycle + 1 =>
       /\ Len(tracks') = Len(tracks)
       /\ \A i \in 1..Len(tracks) : Unscored(tracks'[i]) = Unscored(tracks[i])
       /\ IF ScoredCall
          THEN \A i \in 1..Len(tracks) :
                 tracks'[i].vision_prob =
                   TrackProb(tracks[i], v_ego, inp.leads[call'.k])
          ELSE tracks' = tracks]_vars

\* reached: get_lead ran association over three Tracks and left the
\* candidate's score on each, not all the same
C34_Witness ==
  /\ call.fn = "get_lead" /\ ready /\ CallLead.prob > 50
  /\ Len(tracks) = 3
  /\ \A i \in 1..3 : tracks[i].vision_prob = TrackProb(tracks[i], v_ego, CallLead)
  /\ tracks[1].vision_prob # tracks[2].vision_prob
  /\ tracks[1].dRel > 0

----------------------------------------------------------------------------
(* Model of selfdrive/controls/lib/desire_helper.py: the lane-change and   *)
(* turn state machine.                                                     *)
(*                                                                         *)
(* Units.  Distances are centimetres, speeds cm/s.  The timers             *)
(* (lane_change_timer, keep_pulse_timer, lane_change_wait_timer) count     *)
(* steps of DT_MDL; lane_change_ll_prob counts steps of DT_MDL as well     *)
(* (1.0 is 20).  The filtered lane widths are kept times 60, so that the   *)
(* mean of one to six centimetre values is an integer.  lane_change_prob   *)
(* is in thousandths.                                                      *)
(***************************************************************************)

\* DT_MDL as imported from common.realtime, ms
DT_MDL == 50

\* LANE_CHANGE_TIME_MAX = 10., ms
LANE_CHANGE_TIME_MAX == 10000

\* LANE_CHANGE_SPEED_MIN = 20 * CV.MPH_TO_MS = 8.9408 m/s, in 1e-4 m/s
LANE_CHANGE_SPEED_MIN == 89408

\* the side distance when no side lead is reported (255 m)
NoSideObjectDist == 25500

\* self.lane_change_timer > LANE_CHANGE_TIME_MAX, for a timer that was n times
\* increased by DT_MDL from 0.0: the float sum exceeds n * 0.05 by a few ulps
\* (the 200th sum is 10.000000000000007), so it compares greater from n = 200
TimerOverMax(n) == n * DT_MDL >= LANE_CHANGE_TIME_MAX

\* StreamingMovingAverage(window_size)
StreamingMovingAverage(window_size) == [window_size |-> window_size, values |-> <<>>]

RECURSIVE SumSeq(_)
SumSeq(q) == IF q = <<>> THEN 0 ELSE Head(q) + SumSeq(Tail(q))

\* StreamingMovingAverage.process: the filter after the value
FilterPut(f, value) ==
  [f EXCEPT !.values = IF Len(f.values) = f.window_size
                       THEN Append(Tail(f.values), value)
                       ELSE Append(f.values, value)]

\* StreamingMovingAverage.process: the mean it returns, times 60
FilterMean(f) == (SumSeq(f.values) * 60) \div Len(f.values)

\* calculate_lane_width(lane, lane_prob, current_lane, road_edge), from the
\* y of index 10 of each line: [lane, edge]
calculate_lane_width(lane_y, current_y, edge_y) ==
  [lane |-> Min2(Abs(current_y - lane_y), Abs(current_y - edge_y)),
   edge |-> Abs(current_y - edge_y)]

\* DesireHelper.__init__
DesireHelper_init ==
  [lane_change_state |-> "off", lane_change_direction |-> "none",
   lane_change_timer |-> 0, lane_change_ll_prob |-> 20, keep_pulse_timer |-> 0,
   prev_one_blinker |-> FALSE, desire |-> "none",
   turn_desires |-> TRUE, lane_detection |-> TRUE, one_lane_change |-> TRUE,
   lane_change_delay |-> 0, turn_direction |-> "none",
   lane_change_completed |-> FALSE, turn_completed |-> FALSE,
   lane_change_wait_timer |-> 0,
   lane_width_left |-> 0, lane_width_right |-> 0,
   distance_to_road_edge_left |-> 0, distance_to_road_edge_right |-> 0,
   lane_width_left_filter |-> StreamingMovingAverage(6),
   lane_width_right_filter |-> StreamingMovingAverage(6),
   distance_to_road_edge_left_filter |-> StreamingMovingAverage(6),
   distance_to_road_edge_right_filter |-> StreamingMovingAverage(6),
   lane_available_prev |-> FALSE, edge_available_prev |-> FALSE,
   blinker_bypass |-> FALSE,
   available_left_lane |-> FALSE, available_right_lane |-> FALSE,
   available_left_edge |-> FALSE, available_right_edge |-> FALSE,
   log_timer |-> 0, debugText |-> "", noo_active |-> 0,
   leftSideObjectDist |-> NoSideObjectDist, rightSideObjectDist |-> NoSideObjectDist,
   autoTurnControl |-> 0]

\* DesireHelper._add_log(log)
add_log(d, log) ==
  IF log = ""
  THEN [d EXCEPT !.log_timer = Max2(0, d.log_timer - 1),
                 !.debugText = IF Max2(0, d.log_timer - 1) <= 0 THEN "" ELSE @]
  ELSE [d EXCEPT !.debugText = log, !.log_timer = 100]

\* lines 124-130: dRel + vLead * 4.0 of a reported side lead, else 255
SideObjectDist(lead) ==
  IF lead.status THEN lead.dRel + lead.vLead * 4 ELSE NoSideObjectDist

\* lines 131-135
BlinkerExtMode(in) == (in.leftBlinkerExt + in.rightBlinkerExt) \div 20000

LeftBlinker(in) == in.leftBlinker \/ in.leftBlinkerExt % 10000 > 0

RightBlinker(in) == in.rightBlinker \/ in.rightBlinkerExt % 10000 > 0

\* line 144: below 20 mph, or below 5 km/h under blinkerExtMode 1
BelowLaneChangeSpeed(in) ==
  IF BlinkerExtMode(in) \in {0, 2}
  THEN in.vEgo * 100 < LANE_CHANGE_SPEED_MIN
  ELSE in.vEgo * 36 < 5000

\* the hysteresis of lines 156-172 on a width kept times 60
Available(was, width) ==
  IF width < 220 * 60 THEN FALSE ELSE IF width > 240 * 60 THEN TRUE ELSE was

\* lines 147-172: the lane widths of this frame through the filters
DH_lanes(d, in) ==
  LET fl == FilterPut(d.lane_width_left_filter,
              calculate_lane_width(in.laneY[1], in.laneY[2], in.edgeY[1]).lane)
      fr == FilterPut(d.lane_width_right_filter,
              calculate_lane_width(in.laneY[4], in.laneY[3], in.edgeY[2]).lane)
      el == FilterPut(d.distance_to_road_edge_left_filter,
              calculate_lane_width(in.laneY[1], in.laneY[2], in.edgeY[1]).edge)
      er == FilterPut(d.distance_to_road_edge_right_filter,
              calculate_lane_width(in.laneY[4], in.laneY[3], in.edgeY[2]).edge)
  IN [d EXCEPT
        !.lane_width_left_filter = fl, !.lane_width_right_filter = fr,
        !.distance_to_road_edge_left_filter = el,
        !.distance_to_road_edge_right_filter = er,
        !.lane_width_left = FilterMean(fl), !.lane_width_right = FilterMean(fr),
        !.distance_to_road_edge_left = FilterMean(el),
        !.distance_to_road_edge_right = FilterMean(er),
        !.available_left_lane = Available(d.available_left_lane, FilterMean(fl)),
        !.available_right_lane = Available(d.available_right_lane, FilterMean(fr)),
        !.available_left_edge = Available(d.available_left_edge, FilterMean(el)),
        !.available_right_edge = Available(d.available_right_edge, FilterMean(er))]

\* lines 121-172: the part of update before the state machine
DH_inputs(d, in) ==
  DH_lanes([add_log(d, "") EXCEPT
              !.autoTurnControl = in.AutoTurnControl,
              !.leftSideObjectDist = SideObjectDist(in.leadLeft),
              !.rightSideObjectDist = SideObjectDist(in.leadRight),
              !.blinker_bypass = IF LeftBlinker(in) = RightBlinker(in)
                                 THEN FALSE ELSE @],
           in)

\* the locals of update that the later lines read: one_blinker (after the
\* bypass), below_lane_change_speed, lane_available and edge_available
DH_locals(d, in) ==
  [leftBlinker |-> LeftBlinker(in),
   one_blinker |-> LeftBlinker(in) # RightBlinker(in) /\ ~d.blinker_bypass,
   below |-> BelowLaneChangeSpeed(in),
   mode |-> BlinkerExtMode(in),
   lane_available |->
     IF ~(d.lane_detection /\ LeftBlinker(in) # RightBlinker(in) /\ ~d.blinker_bypass)
        \/ BelowLaneChangeSpeed(in)
     THEN TRUE
     ELSE IF LeftBlinker(in) THEN d.available_left_lane ELSE d.available_right_lane,
   edge_available |->
     IF ~(d.lane_detection /\ LeftBlinker(in) # RightBlinker(in) /\ ~d.blinker_bypass)
        \/ BelowLaneChangeSpeed(in)
     THEN FALSE
     ELSE IF LeftBlinker(in) THEN d.available_left_edge ELSE d.available_right_edge]

\* the side of a lane change or turn from the blinker
SideOf(loc) == IF loc.leftBlinker THEN "left" ELSE "right"

\* lines 223-225: the driver's torque toward the direction of the change
TorqueApplied(dir, in) ==
  /\ in.steeringPressed
  /\ \/ in.steeringTorque > 0 /\ dir = "left"
     \/ in.steeringTorque < 0 /\ dir = "right"

\* lines 227-228
BlindspotDetected(dir, in) ==
  \/ in.leftBlindspot /\ dir = "left"
  \/ in.rightBlindspot /\ dir = "right"

\* the mutant: a side object is never detected
ObjectDetectedNever(d, dir, in) == FALSE

\* lines 230-232: object_dist = v_ego * 3.0
ObjectDetected(d, dir, in) ==
  \/ d.leftSideObjectDist < in.vEgo * 3 /\ dir = "left"
  \/ d.rightSideObjectDist < in.vEgo * 3 /\ dir = "right"

\* lines 238-251: noo_active
NooActive(d, in, loc) ==
  IF ~in.leftBlinker /\ ~in.rightBlinker /\ loc.mode > 0
  THEN IF d.autoTurnControl = 3 \/ loc.leftBlinker THEN 1
       ELSE IF ~d.lane_available_prev /\ loc.lane_available THEN 10
       ELSE IF ~d.edge_available_prev /\ loc.edge_available THEN 11
       ELSE IF d.noo_active < 10 /\ d.lane_available_prev /\ loc.lane_available
       THEN 2
       ELSE d.noo_active
  ELSE 0

\* lines 253-271: what holds the nudgeless change back, "" when nothing does
NudgelessBlock(d, in, loc) ==
  IF ObjectDetected(d, d.lane_change_direction, in)
  THEN "Lane change object detected"
  ELSE IF ~loc.lane_available /\ d.noo_active < 10
  THEN "Lane change no lane available"
  ELSE IF d.noo_active = 1 THEN "Lane change blocked. need torque"
  ELSE IF d.noo_active = 2 THEN "Lane change blocked. not end lane"
  ELSE IF d.lane_change_completed THEN "Lane change need torque to start"
  ELSE IF d.lane_change_wait_timer < d.lane_change_delay
  THEN "Lane change waiting timer"
  ELSE ""

\* the mutant: the change starts whatever the blinker and the speed
PreLaneChangeEndAlways(d, in, loc, torque_applied) ==
  IF torque_applied /\ ~BlindspotDetected(d.lane_change_direction, in)
  THEN add_log([d EXCEPT !.lane_change_completed = d.one_lane_change,
                         !.lane_change_state = "laneChangeStarting"],
               "Lane change starting")
  ELSE d

\* lines 273-281: the change is cancelled, started or left waiting
PreLaneChangeEnd(d, in, loc, torque_applied) ==
  IF ~loc.one_blinker \/ loc.below
  THEN add_log([d EXCEPT !.lane_change_state = "off",
                         !.lane_change_direction = "none"],
               "Lane change canceled")
  ELSE IF torque_applied /\ ~BlindspotDetected(d.lane_change_direction, in)
  THEN add_log([d EXCEPT !.lane_change_completed = d.one_lane_change,
                         !.lane_change_state = "laneChangeStarting"],
               "Lane change starting")
  ELSE d

\* lines 253-271 on the object with its direction, wait timer and noo_active
PreLaneChangeNudge(d, in, loc) ==
  IF NudgelessBlock(d, in, loc) # ""
  THEN PreLaneChangeEnd(add_log(d, NudgelessBlock(d, in, loc)), in, loc,
                        TorqueApplied(d.lane_change_direction, in))
  ELSE PreLaneChangeEnd([d EXCEPT !.lane_change_wait_timer = 0], in, loc, TRUE)

\* lines 217-281: the branch of LaneChangeState.preLaneChange
PreLaneChange(d, in, loc) ==
  PreLaneChangeNudge(
    [d EXCEPT !.lane_change_direction = SideOf(loc),
              !.lane_change_wait_timer = @ + 1,
              !.noo_active = NooActive(d, in, loc)],
    in, loc)

\* lines 284-292: the branch of LaneChangeState.laneChangeStarting
LaneChangeStarting(d, in) ==
  [d EXCEPT !.lane_change_ll_prob = Max2(@ - 2, 0),
            !.lane_change_state =
              IF in.lane_change_prob < 20 /\ Max2(d.lane_change_ll_prob - 2, 0) = 0
              THEN "laneChangeFinishing" ELSE @]

\* lines 295-307: the branch of LaneChangeState.laneChangeFinishing
LaneChangeFinishing(d, loc) ==
  IF Min2(d.lane_change_ll_prob + 1, 20) = 20
  THEN add_log([d EXCEPT !.lane_change_ll_prob = 20,
                         !.lane_change_direction = "none",
                         !.lane_change_state =
                           IF loc.one_blinker THEN "preLaneChange" ELSE "off"],
               IF loc.one_blinker THEN "Lane change continued"
               ELSE "Lane change finished")
  ELSE add_log([d EXCEPT !.lane_change_ll_prob = @ + 1], "Lane change finishing")

\* line 197: one blinker below the lane-change speed, or under blinkerExtMode 2
TurnRequested(d, loc) ==
  /\ loc.one_blinker
  /\ (loc.below /\ d.turn_desires /\ loc.mode = 0) \/ loc.mode = 2

\* the mutant: the state machine runs on after the time limit
DH_stateNoLimit(d, in, loc) ==
  IF ~in.lateral_active
  THEN [d EXCEPT !.lane_change_state = "off", !.lane_change_direction = "none",
                 !.turn_direction = "none"]
  ELSE IF TurnRequested(d, loc)
  THEN add_log([d EXCEPT !.turn_direction = IF loc.leftBlinker THEN "turnLeft"
                                            ELSE "turnRight",
                         !.turn_completed = TRUE,
                         !.lane_change_state = "off",
                         !.lane_change_direction = "none"],
               "Lane change turning")
  ELSE IF d.lane_change_state = "off" /\ loc.one_blinker /\ ~d.prev_one_blinker
          /\ ~loc.below
  THEN add_log([d EXCEPT !.turn_direction = "none",
                         !.lane_change_state = "preLaneChange",
                         !.lane_change_ll_prob = 20,
                         !.lane_change_wait_timer = 0,
                         !.noo_active = 0],
               "Lane change prepare")
  ELSE IF d.lane_change_state = "preLaneChange"
  THEN PreLaneChange([d EXCEPT !.turn_direction = "none"], in, loc)
  ELSE IF d.lane_change_state = "laneChangeStarting"
  THEN LaneChangeStarting([d EXCEPT !.turn_direction = "none"], in)
  ELSE IF d.lane_change_state = "laneChangeFinishing"
  THEN LaneChangeFinishing([d EXCEPT !.turn_direction = "none"], loc)
  ELSE [d EXCEPT !.turn_direction = "none"]

\* lines 193-307: the state machine
DH_state(d, in, loc) ==
  IF ~in.lateral_active \/ TimerOverMax(d.lane_change_timer)
  THEN [d EXCEPT !.lane_change_state = "off", !.lane_change_direction = "none",
                 !.turn_direction = "none"]
  ELSE IF TurnRequested(d, loc)
  THEN add_log([d EXCEPT !.turn_direction = IF loc.leftBlinker THEN "turnLeft"
                                            ELSE "turnRight",
                         !.turn_completed = TRUE,
                         !.lane_change_state = "off",
                         !.lane_change_direction = "none"],
               "Lane change turning")
  ELSE IF d.lane_change_state = "off" /\ loc.one_blinker /\ ~d.prev_one_blinker
          /\ ~loc.below
  THEN add_log([d EXCEPT !.turn_direction = "none",
                         !.lane_change_state = "preLaneChange",
                         !.lane_change_ll_prob = 20,
                         !.lane_change_wait_timer = 0,
                         !.noo_active = 0],
               "Lane change prepare")
  ELSE IF d.lane_change_state = "preLaneChange"
  THEN PreLaneChange([d EXCEPT !.turn_direction = "none"], in, loc)
  ELSE IF d.lane_change_state = "laneChangeStarting"
  THEN LaneChangeStarting([d EXCEPT !.turn_direction = "none"], in)
  ELSE IF d.lane_change_state = "laneChangeFinishing"
  THEN LaneChangeFinishing([d EXCEPT !.turn_direction = "none"], loc)
  ELSE [d EXCEPT !.turn_direction = "none"]

\* lines 309-312
DH_timer(d) ==
  [d EXCEPT !.lane_change_timer =
     IF d.lane_change_state \in {"off", "preLaneChange"} THEN 0 ELSE @ + 1]

\* lines 318-325: steering against the change cancels it
SteeringPressed(d, in) ==
  /\ in.steeringPressed
  /\ \/ in.steeringTorque < 0 /\ d.lane_change_direction = "left"
     \/ in.steeringTorque > 0 /\ d.lane_change_direction = "right"

DH_cancel(d, in) ==
  IF SteeringPressed(d, in)
  THEN add_log([d EXCEPT !.lane_change_direction = "none",
                         !.lane_change_state = "off",
                         !.blinker_bypass = TRUE],
               "Lane change steering pressed.. canceled")
  ELSE d

\* DESIRES[lane_change_direction][lane_change_state]
DESIRES(direction, state) ==
  IF state \in {"laneChangeStarting", "laneChangeFinishing"}
  THEN (IF direction = "left" THEN "laneChangeLeft"
        ELSE IF direction = "right" THEN "laneChangeRight" ELSE "none")
  ELSE "none"

\* lines 327-337: the flags and the desire
DH_desire(d, loc) ==
  [d EXCEPT !.lane_change_completed = @ /\ loc.one_blinker,
            !.turn_completed = @ /\ loc.one_blinker,
            !.desire =
              IF d.turn_direction # "none" THEN d.turn_direction
              ELSE IF ~(d.turn_completed /\ loc.one_blinker)
              THEN DESIRES(d.lane_change_direction, d.lane_change_state)
              ELSE "none"]

\* lines 339-346: the keep pulse
DH_pulse(d) ==
  IF d.lane_change_state \in {"off", "laneChangeStarting"}
  THEN [d EXCEPT !.keep_pulse_timer = 0]
  ELSE IF d.lane_change_state = "preLaneChange"
  THEN [d EXCEPT !.keep_pulse_timer = IF (@ + 1) * DT_MDL >= 1000 THEN 0 ELSE @ + 1,
                 !.desire = IF (d.keep_pulse_timer + 1) * DT_MDL < 1000
                               /\ @ \in {"keepLeft", "keepRight"}
                            THEN "none" ELSE @]
  ELSE d

\* lines 309-346: the part of update after the state machine
DH_finish(d, in, loc) ==
  DH_pulse(DH_desire(DH_cancel(
    [DH_timer(d) EXCEPT !.prev_one_blinker = loc.one_blinker,
                        !.lane_available_prev = loc.lane_available,
                        !.edge_available_prev = loc.edge_available],
    in), loc))

DH_run(d, in) == DH_finish(DH_state(d, in, DH_locals(d, in)), in, DH_locals(d, in))

\* DesireHelper.update(carstate, modeldata, lateral_active, lane_change_prob, sm)
DesireHelper_update(d, in) == DH_run(DH_inputs(d, in), in)

----------------------------------------------------------------------------
(* DesireHelper under a driver: construction, then one update per model    *)
(* frame, on arguments drawn from a set                                    *)

\* a side lead of radarState: none, or one at dRel doing vLead
NoSideLead == [status |-> FALSE, dRel |-> 0, vLead |-> 0]

SideLeadAt(dRel, vLead) == [status |-> TRUE, dRel |-> dRel, vLead |-> vLead]

\* 15 m/s on a road with a lane of 3.6 m on either side, nothing signalled
DriveOn ==
  [vEgo |-> 1500, leftBlinker |-> FALSE, rightBlinker |-> FALSE,
   steeringPressed |-> FALSE, steeringTorque |-> 0,
   leftBlindspot |-> FALSE, rightBlindspot |-> FALSE,
   lateral_active |-> TRUE, lane_change_prob |-> 500,
   leadLeft |-> NoSideLead, leadRight |-> NoSideLead,
   leftBlinkerExt |-> 0, rightBlinkerExt |-> 0, AutoTurnControl |-> 0,
   laneY |-> <<-540, -180, 180, 540>>, edgeY |-> <<-560, 560>>]

BlinkLeft == [DriveOn EXCEPT !.leftBlinker = TRUE]

BlinkRight == [DriveOn EXCEPT !.rightBlinker = TRUE]

\* the same road without a lane on the left (the edge is 0.3 m away)
NoLeftLane == [BlinkLeft EXCEPT !.laneY = <<-200, -180, 180, 540>>,
                                !.edgeY = <<-210, 560>>]

DesireInputs ==
  { DriveOn, BlinkLeft, BlinkRight, NoLeftLane,
    [BlinkLeft EXCEPT !.steeringPressed = TRUE, !.steeringTorque = 1],
    [BlinkLeft EXCEPT !.steeringPressed = TRUE, !.steeringTorque = -1],
    [BlinkLeft EXCEPT !.leftBlindspot = TRUE],
    [BlinkLeft EXCEPT !.rightBlindspot = TRUE],
    [BlinkLeft EXCEPT !.leftBlindspot = TRUE, !.steeringPressed = TRUE,
                      !.steeringTorque = 1],
    [BlinkLeft EXCEPT !.leadLeft = SideLeadAt(2499, 500)],
    [BlinkLeft EXCEPT !.leadLeft = SideLeadAt(2500, 500)],
    [BlinkLeft EXCEPT !.leadLeft = SideLeadAt(4000, 0)],
    [BlinkLeft EXCEPT !.leadRight = SideLeadAt(2000, 0)],
    [BlinkLeft EXCEPT !.leadLeft = SideLeadAt(2000, 0), !.steeringPressed = TRUE,
                      !.steeringTorque = 1],
    [BlinkLeft EXCEPT !.vEgo = 894],
    [BlinkLeft EXCEPT !.vEgo = 895],
    [BlinkLeft EXCEPT !.vEgo = 8501],
    [BlinkLeft EXCEPT !.rightBlinker = TRUE],
    [BlinkLeft EXCEPT !.lateral_active = FALSE],
    [BlinkLeft EXCEPT !.lane_change_prob = 0],
    [BlinkRight EXCEPT !.steeringPressed = TRUE, !.steeringTorque = -1],
    [BlinkRight EXCEPT !.rightBlindspot = TRUE],
    [BlinkRight EXCEPT !.leadRight = SideLeadAt(2000, 0)],
    [DriveOn EXCEPT !.leftBlinkerExt = 10000, !.rightBlinkerExt = 10001,
                    !.vEgo = 500],
    [DriveOn EXCEPT !.leftBlinkerExt = 10000, !.rightBlinkerExt = 10001,
                    !.vEgo = 138],
    [DriveOn EXCEPT !.leftBlinkerExt = 10000, !.rightBlinkerExt = 10001,
                    !.vEgo = 500, !.AutoTurnControl = 3],
    [DriveOn EXCEPT !.leftBlinkerExt = 10001, !.rightBlinkerExt = 10000,
                    !.vEgo = 500],
    [DriveOn EXCEPT !.leftBlinkerExt = 20001, !.rightBlinkerExt = 20000] }

\* the bookkeeping of the model around an update of the object
DesireStep(d, in) ==
  /\ dh' = d
  /\ dh_in' = in
  /\ dh_calls' = dh_calls + 1
  /\ dh_run' = IF d.lane_change_state \in {"laneChangeStarting", "laneChangeFinishing"}
               THEN dh_run + 1 ELSE 0
  /\ UNCHANGED <<rdvars, qvars>>

\* DesireHelper()
DesireHelper_construct ==
  /\ dh = Absent
  /\ dh' = DesireHelper_init
  /\ UNCHANGED <<dh_in, dh_run, dh_calls, rdvars, qvars>>

\* one call of DesireHelper.update
Desire_update ==
  /\ dh # Absent
  /\ dh_calls < MaxDesireUpdates
  /\ \E in \in DesireInputs : DesireStep(DesireHelper_update(dh, in), in)

\* the lane-change probability of the model drops during a change that is
\* young or close to the time limit
ProbDrops(d) ==
  /\ d.lane_change_state = "laneChangeStarting"
  /\ \/ d.lane_change_timer <= MaxEarlyTimer
     \/ d.lane_change_timer >= MinLateTimer

\* a lane change to the left that the blinker holds on, with lateral control
\* dropping out at any time and the model's lane-change probability going low
TimerInputs(d) ==
  { BlinkLeft, [BlinkLeft EXCEPT !.lateral_active = FALSE] }
    \cup (IF ProbDrops(d) THEN {[BlinkLeft EXCEPT !.lane_change_prob = 0]} ELSE {})

\* one call of DesireHelper.update along a held lane change
Timer_update ==
  /\ dh # Absent
  /\ dh_calls < MaxTimerUpdates
  /\ \E in \in TimerInputs(dh) : DesireStep(DesireHelper_update(dh, in), in)

InitDesire == radar_ts = 50 /\ InitFields

NextDesire == DesireHelper_construct \/ Desire_update

SpecDesire == InitDesire /\ [][NextDesire]_vars

NextTimer == DesireHelper_construct \/ Timer_update

SpecTimer == InitDesire /\ [][NextTimer]_vars

----------------------------------------------------------------------------
(* C35: how laneChangeStarting is entered (SpecDesire)                     *)

\* the update just made took the object into laneChangeStarting
EnteredStarting ==
  /\ dh_calls' = dh_calls + 1
  /\ dh'.lane_change_state = "laneChangeStarting"
  /\ dh.lane_change_state # "laneChangeStarting"

\* exactly one blinker (of the car or external) is on and the bypass that a
\* steering override sets is not in force
OneBlinkerEffective(d, in) ==
  /\ (in.leftBlinker \/ in.leftBlinkerExt % 10000 > 0)
       # (in.rightBlinker \/ in.rightBlinkerExt % 10000 > 0)
  /\ ~d.blinker_bypass

\* the speed is below the minimum for a lane change: 20 mph (8.9408 m/s), or
\* 5 km/h when the external blinker mode is 1
BelowMinimum(in) ==
  IF (in.leftBlinkerExt + in.rightBlinkerExt) \div 20000 = 1
  THEN in.vEgo * 36 < 5000
  ELSE in.vEgo * 100 < 89408

\* C35: an update that ends in laneChangeStarting and did not start there
\* started in preLaneChange, with lateral control active, exactly one blinker
\* effective, the speed not below the lane-change minimum and no blindspot
\* reported on the side of the blinker
C35_StartingOnlyFromPre ==
  [][EnteredStarting =>
       /\ dh.lane_change_state = "preLaneChange"
       /\ dh_in'.lateral_active
       /\ OneBlinkerEffective(dh, dh_in')
       /\ ~BelowMinimum(dh_in')
       /\ dh'.lane_change_direction \in {"left", "right"}
       /\ dh'.lane_change_direction = "left" => ~dh_in'.leftBlindspot
       /\ dh'.lane_change_direction = "right" => ~dh_in'.rightBlindspot]_vars

\* reached: a change to the left started in the update the right blindspot
\* was reported in
C35_Witness ==
  /\ dh # Absent
  /\ dh.lane_change_state = "laneChangeStarting" /\ dh_run = 1
  /\ dh.lane_change_direction = "left"
  /\ dh_in.rightBlindspot /\ ~dh_in.leftBlindspot

----------------------------------------------------------------------------
(* C36: the radar side lead holds the nudgeless change back (SpecDesire)   *)

\* the update just made started in preLaneChange
FromPre == dh_calls' = dh_calls + 1 /\ dh.lane_change_state = "preLaneChange"

\* the side lead of radarState on the side of the blinker
LeadOnSide(in) ==
  IF in.leftBlinker \/ in.leftBlinkerExt % 10000 > 0 THEN in.leadLeft ELSE in.leadRight

\* the driver presses the wheel toward the side of the blinker
DriverTorqueToward(in) ==
  /\ in.steeringPressed
  /\ IF in.leftBlinker \/ in.leftBlinkerExt % 10000 > 0
     THEN in.steeringTorque > 0 ELSE in.steeringTorque < 0

----------------------------------------------------------------------------
(* C37: lateral control off and the time limit (SpecTimer)                 *)

\* C37: an update that starts with lateral control inactive, or with a
\* lane_change_timer that compares above LANE_CHANGE_TIME_MAX (the float sum
\* of 200 steps of DT_MDL does), ends with the state off, no lane-change
\* direction, no turn direction, desire none and the timer at 0; and no more
\* than LANE_CHANGE_TIME_MAX / DT_MDL + 1 consecutive updates end in
\* laneChangeStarting or laneChangeFinishing
C37_TimeLimit ==
  /\ [](dh_run <= LANE_CHANGE_TIME_MAX \div DT_MDL + 1)
  /\ [][(/\ dh_calls' = dh_calls + 1
         /\ \/ ~dh_in'.lateral_active
            \/ dh.lane_change_timer * DT_MDL >= LANE_CHANGE_TIME_MAX)
          => /\ dh'.lane_change_state = "off"
             /\ dh'.lane_change_direction = "none"
             /\ dh'.turn_direction = "none"
             /\ dh'.desire = "none"
             /\ dh'.lane_change_timer = 0
             /\ dh_run' = 0]_vars

\* reached: 200 consecutive updates ended in laneChangeStarting, with lateral
\* control active throughout; the timer stands at the limit
C37_Witness ==
  /\ dh # Absent
  /\ dh.lane_change_state = "laneChangeStarting"
  /\ dh_run = 200 /\ dh.lane_change_timer = 200
  /\ dh.desire = "laneChangeLeft"

----------------------------------------------------------------------------
(* IsoTpParallelQuery (selfdrive/car/isotp_parallel_query.py): one call of *)
(* get_data, followed through its loop. Addresses are numbered 1..N in the *)
(* order of msg_addrs, 0 stands for the functional address; bytes are      *)
(* numbers, time is in ticks of the monotonic clock                        *)

\* the query under test: tester present, then read data by identifier F190
QueryRequest == << <<62, 0>>, <<34, 241, 144>> >>

QueryResponse == << <<126, 0>>, <<98, 241, 144>> >>

QueryAddrs == {1, 2}

\* get_data(timeout, total_timeout) and response_pending_timeout, in ticks;
\* start_time is what time.monotonic() reads at line 103
QueryArgs ==
  [timeout |-> 2, total_timeout |-> 5, response_pending_timeout |-> 3,
   start_time |-> 10]

\* bytes.startswith
startswith(dat, prefix) ==
  /\ Len(dat) >= Len(prefix)
  /\ SubSeq(dat, 1, Len(prefix)) = prefix

\* dat[n:]
bytes_from(dat, n) == SubSeq(dat, n + 1, Len(dat))

\* d[key] = value on a dict kept as a function over its keys
dict_set(d, key, value) ==
  [k \in DOMAIN d \cup {key} |-> IF k = key THEN value ELSE d[k]]

\* what IsoTpMessage.recv() can give: an exception, (None, rx_in_progress),
\* or a complete message (dat, False)
RecvDats ==
  { <<>>,
    <<126, 0>>,
    <<98, 241, 144, 65, 66>>,
    <<98, 241>>,
    <<127, 34, 120>>,
    <<127, 34, 17>> }

RecvOutcomes ==
  {[kind |-> "exception"]}
    \cup {[kind |-> "none", rx_in_progress |-> b] : b \in BOOLEAN}
    \cup {[kind |-> "dat", dat |-> d, rx_in_progress |-> FALSE] : d \in RecvDats}

\* address 1 answers in every way; address 2 is an ECU that is slow: nothing
\* yet, frames in progress, or a response-pending reply
RecvOutcomesOf(a) ==
  IF a = 1 THEN RecvOutcomes
  ELSE {[kind |-> "none", rx_in_progress |-> b] : b \in BOOLEAN}
         \cup {[kind |-> "dat", dat |-> <<127, 34, 120>>, rx_in_progress |-> FALSE]}

\* lines 81-105: the state of get_data when it enters its loop
get_data_start(functional) ==
  [pc |-> "rx", i |-> 0,
   timeout |-> QueryArgs.timeout, total_timeout |-> QueryArgs.total_timeout,
   response_pending_timeout |-> QueryArgs.response_pending_timeout,
   functional |-> functional,
   request_counter |-> [a \in QueryAddrs |-> 0],
   request_done |-> [a \in QueryAddrs |-> FALSE],
   done_by |-> [a \in QueryAddrs |-> "none"],
   sendcan |-> IF functional THEN << <<0, 0>> >> ELSE << <<1, 0>>, <<2, 0>> >>,
   results |-> <<>>,
   start_time |-> QueryArgs.start_time,
   now |-> QueryArgs.start_time,
   response_timeouts |-> [a \in QueryAddrs |-> QueryArgs.start_time + QueryArgs.timeout]]

\* request_done[tx_addr] = True, with the branch that set it first
mark_done(q, a, by) ==
  [q EXCEPT !.request_done[a] = TRUE,
            !.done_by[a] = IF q.request_done[a] THEN @ ELSE by]

\* lines 118-120 (addrs_responded is read for the log only)
rx_progress(q, a, out) ==
  IF out.rx_in_progress
  THEN [q EXCEPT !.response_timeouts[a] = q.now + q.timeout]
  ELSE q

\* lines 131-133 with every prefix taken for the expected one
response_validAny(q, a, dat) == TRUE

\* lines 131-133
response_valid(q, a, dat) ==
  startswith(dat, QueryResponse[q.request_counter[a] + 1])

\* lines 135-150: a non-empty message of address a
on_response(q, a, dat) ==
  LET counter == q.request_counter[a]
      expected_response == QueryResponse[counter + 1]
  IN IF response_valid(q, a, dat)
     THEN IF counter + 1 < Len(QueryRequest)
          THEN [q EXCEPT !.response_timeouts[a] = q.now + q.timeout,
                         !.sendcan = Append(@, <<a, counter + 1>>),
                         !.request_counter[a] = counter + 1]
          ELSE mark_done([q EXCEPT !.results =
                              dict_set(@, a, bytes_from(dat, Len(expected_response)))],
                         a, "result")
     ELSE IF (IF Len(dat) > 2 THEN dat[3] ELSE -1) = 120
          THEN [q EXCEPT !.response_timeouts[a] = q.now + q.response_pending_timeout]
          ELSE mark_done(q, a, "bad response")

\* lines 110-150: the body of the for loop for address a
recv_one(q, a, out) ==
  IF out.kind = "exception" THEN mark_done(q, a, "exception")
  ELSE IF out.kind = "none" THEN rx_progress(q, a, out)
  ELSE IF Len(out.dat) = 0 THEN mark_done(rx_progress(q, a, out), a, "empty response")
  ELSE on_response(rx_progress(q, a, out), a, out.dat)

\* lines 153-164: every address past its response timeout is marked done
mark_timeouts(q) ==
  [q EXCEPT
     !.request_done = [a \in QueryAddrs |->
                         q.request_done[a] \/ q.now - q.response_timeouts[a] > 0],
     !.done_by = [a \in QueryAddrs |->
                    IF ~q.request_done[a] /\ q.now - q.response_timeouts[a] > 0
                    THEN "timeout" ELSE q.done_by[a]]]

\* lines 167-172 without the break on total_timeout
loop_breaksAllDone(q) == \A a \in QueryAddrs : q.request_done[a]

\* lines 167-172: the loop is left
loop_breaks(q) ==
  \/ \A a \in QueryAddrs : q.request_done[a]
  \/ q.now - q.start_time > q.total_timeout

\* get_data is called and runs up to its loop
Query_get_data ==
  /\ iq = Absent
  /\ \E functional \in BOOLEAN : iq' = get_data_start(functional)
  /\ UNCHANGED <<iq_rx, rdvars, dvars>>

\* line 107: rx() returns after d ticks
Query_rx_after(d) ==
  /\ iq # Absent /\ iq.pc = "rx"
  /\ iq' = [iq EXCEPT !.now = @ + d, !.pc = "recv", !.i = 1]
  /\ UNCHANGED <<iq_rx, rdvars, dvars>>

Query_rx == \E d \in 0 .. MaxTick : Query_rx_after(d)

\* lines 109-150 for the next address of the for loop
Query_recv ==
  /\ iq # Absent /\ iq.pc = "recv"
  /\ \E out \in RecvOutcomesOf(iq.i) :
       /\ iq' = [recv_one(iq, iq.i, out) EXCEPT
                   !.pc = IF iq.i + 1 \in QueryAddrs THEN "recv" ELSE "timeouts",
                   !.i = IF iq.i + 1 \in QueryAddrs THEN iq.i + 1 ELSE 0]
       /\ iq_rx' = [addr |-> iq.i, out |-> out]
  /\ UNCHANGED <<rdvars, dvars>>

\* lines 152-172: the timeouts and the two breaks; line 174 returns results
Query_timeouts ==
  /\ iq # Absent /\ iq.pc = "timeouts"
  /\ LET q == mark_timeouts(iq)
     IN iq' = [q EXCEPT !.pc = IF loop_breaks(q) THEN "returned" ELSE "rx"]
  /\ UNCHANGED <<iq_rx, rdvars, dvars>>

NextQuery == Query_get_data \/ Query_rx \/ Query_recv \/ Query_timeouts

SpecQuery == InitDesire /\ [][NextQuery]_vars

\* rx() keeps returning and the monotonic clock keeps advancing
SpecQueryLive ==
  /\ InitDesire /\ [][NextQuery]_vars
  /\ WF_vars(NextQuery)
  /\ SF_vars(\E d \in 1 .. MaxTick : Query_rx_after(d))

----------------------------------------------------------------------------
(* C38: requests, results and done addresses of get_data (SpecQuery)       *)

\* the step is one of the running get_data call
QueryStep == iq # Absent /\ iq' # iq

\* the message msg.recv() gave in this step starts with the prefix expected
\* for request k (counted from 0)
GotPrefix(a, k) ==
  /\ iq.pc = "recv" /\ iq_rx'.addr = a
  /\ iq_rx'.out.kind = "dat"
  /\ Len(iq_rx'.out.dat) >= Len(QueryResponse[k + 1])
  /\ \A n \in 1 .. Len(QueryResponse[k + 1]) :
       iq_rx'.out.dat[n] = QueryResponse[k + 1][n]

\* a request goes out only as request k + 1 to an address whose message of
\* this step starts with prefix k
SendsAfterPrefix ==
  QueryStep /\ iq'.sendcan # iq.sendcan
    => \E a \in QueryAddrs, k \in 0 .. Len(QueryRequest) - 2 :
         /\ iq'.sendcan = Append(iq.sendcan, <<a, k + 1>>)
         /\ GotPrefix(a, k)

\* a result is written only for the address whose message of this step starts
\* with the prefix of the last request, and is that message without the prefix
ResultAfterLastPrefix ==
  QueryStep /\ iq'.results # iq.results
    => \E a \in QueryAddrs :
         /\ GotPrefix(a, Len(QueryRequest) - 1)
         /\ DOMAIN iq'.results = DOMAIN iq.results \cup {a}
         /\ \A b \in DOMAIN iq.results \ {a} : iq'.results[b] = iq.results[b]
         /\ Len(iq'.results[a]) =
              Len(iq_rx'.out.dat) - Len(QueryResponse[Len(QueryRequest)])
         /\ \A n \in 1 .. Len(iq'.results[a]) :
              iq'.results[a][n] =
                iq_rx'.out.dat[n + Len(QueryResponse[Len(QueryRequest)])]

\* the address was marked done by something other than its result
DoneWithoutResult(a) ==
  /\ iq.request_done[a]
  /\ iq.done_by[a] \in {"timeout", "exception", "empty response", "bad response"}

\* the original statement: an address marked done by timeout, exception,
\* empty or bad response has no result written afterwards
C38_DoneContributesNothing ==
  [][/\ SendsAfterPrefix
     /\ ResultAfterLastPrefix
     /\ \A a \in QueryAddrs :
          QueryStep /\ DoneWithoutResult(a)
            => /\ (a \in DOMAIN iq'.results) = (a \in DOMAIN iq.results)
               /\ a \in DOMAIN iq.results => iq'.results[a] = iq.results[a]]_vars

\* C38: request k + 1 goes to an address only in the step that received from
\* it a message starting with expected prefix k; a result is written for an
\* address only in the step that received from it a message starting with
\* the prefix of the last request, and is that message without the prefix;
\* request_done stops nothing but the loop: an address marked done by
\* timeout, exception, empty or bad response is received from in every later
\* iteration and has its next request sent or its result written like any
\* other, until the loop is left, after which nothing changes
C38_RequestsAndResults ==
  [][/\ SendsAfterPrefix
     /\ ResultAfterLastPrefix
     /\ \A a \in QueryAddrs :
          (/\ QueryStep /\ DoneWithoutResult(a)
           /\ iq.pc = "recv" /\ iq.i = a
           /\ iq_rx'.out.kind = "dat" /\ Len(iq_rx'.out.dat) > 0)
            => IF GotPrefix(a, iq.request_counter[a])
               THEN IF iq.request_counter[a] + 1 < Len(QueryRequest)
                    THEN iq'.sendcan # iq.sendcan
                    ELSE a \in DOMAIN iq'.results
               ELSE iq'.sendcan = iq.sendcan /\ iq'.results = iq.results
     /\ iq # Absent /\ iq.pc = "returned" => iq' = iq]_vars

\* reached: address 1 was marked done by a bad response, the slow address 2
\* kept the loop running, and the response to the last request that came for
\* address 1 afterwards is in the results
C38_Witness ==
  /\ iq # Absent
  /\ iq.done_by[1] = "bad response"
  /\ 1 \in DOMAIN iq.results
  /\ iq.results[1] = <<65, 66>>
  /\ iq.request_counter[1] = 1

----------------------------------------------------------------------------
(* C39: get_data terminates (SpecQueryLive)                                *)

\* C39: while rx() keeps returning and the clock advances, get_data returns;
\* the loop is left by exactly the iteration at whose end every address is
\* done or more than total_timeout has passed since start_time, whatever the
\* response timeouts of the addresses were extended to
C39_Terminates ==
  /\ <>(iq # Absent /\ iq.pc = "returned")
  /\ [][iq # Absent /\ iq.pc = "timeouts"
          => (iq'.pc = "returned")
               = \/ \A a \in QueryAddrs :
                      \/ iq.request_done[a]
                      \/ iq.now - iq.response_timeouts[a] > 0
                  \/ iq.now - iq.start_time > iq.total_timeout]_vars

\* reached: get_data returned on total_timeout while address 2, answering
\* response pending in every iteration, was not done and had its response
\* timeout still ahead
C39_Witness ==
  /\ iq # Absent /\ iq.pc = "returned"
  /\ ~iq.request_done[2]
  /\ iq_rx = [addr |-> 2,
              out |-> [kind |-> "dat", dat |-> <<127, 34, 120>>,
                       rx_in_progress |-> FALSE]]
  /\ iq.response_timeouts[2] > iq.now
  /\ iq.now - iq.start_time > iq.total_timeout

====
